---- MODULE Spec2Model ----
(***************************************************************************)
(* A model of the automaton engines of the repository and their clients:   *)
(*   - SoalDua/state_machine.py: the trie matcher (ComboStateMachine);     *)
(*   - SoalDua/game_controller.py: the timing layer (GameController);     *)
(*   - SoalSatu/pushdown_automata.py: PDAStack and PushdownAutomata;       *)
(*   - SoalSatu/expression_validator.py: the tokenizer, InfixValidator,    *)
(*     PostfixValidator, PrefixValidator and ExpressionValidator;          *)
(*   - SoalSatu/expression_converter.py: ExpressionConverter.              *)
(* Every object is a record whose fields carry the names of the Python     *)
(* attributes; every method is an operator from the object (and the        *)
(* arguments) to the object after the call and the value returned.         *)
(***************************************************************************)
EXTENDS Integers, Sequences, FiniteSets, TLC

VARIABLES
    sm,        \* the ComboStateMachine instance
    smCalls,   \* the process_input calls made since construction or the last reset()
    smLast,    \* the name of the last method called on sm
    stk,       \* a PDAStack instance used on its own
    stkCall,   \* the last method called on stk: its name, the stack before, the value returned
    pda,       \* a PushdownAutomata instance
    pdaCall,   \* the last method called on pda: its name, arguments, the automaton before, the value returned
    infix,     \* an InfixValidator instance
    infixCall, \* the last method called on infix: its name, the expression, the ValidationResult
    polish,    \* an ExpressionValidator instance
    polishCall, \* the expression at hand and the last validate call of each notation on polish
    convExpr,  \* the expression handed to the ExpressionConverter
    convCalls, \* the conversions called so far: name, arguments, ConversionResult
    gc,        \* a GameController instance
    gcNow,     \* the reading of time.time(), in half seconds
    gcCall     \* the last method called on gc: its name, key, the clock, the controller before, the value returned, the callbacks fired

\* Python's None.
None == "None"

\* The element of a one-element set. A local variable of the code, assigned
\* once and read several times, is bound as x \in {value}: Only({e(x) : x \in {value}}).
Only(S) == CHOOSE x \in S : TRUE

(***************************************************************************)
(* Bounds of the model.                                                    *)
(***************************************************************************)
MaxCombos == 2    \* patterns in a combo list
MaxSeqLen == 2    \* symbols in one pattern
MaxFeed == 3      \* process_input calls between two reset() calls
MaxStackOps == 3  \* pushes recorded in a PDAStack's history
MaxTrans == 2     \* transitions in a PDA's table
MaxSteps == 2     \* step calls between two resets of a PDA
MaxInput == 2     \* symbols in an input handed to process
MaxExprLen == 5   \* characters in an expression handed to a validator
MaxWords == 5     \* words in a space-separated expression
MaxOperators == 2 \* operators in a well-formed infix expression handed to the converter
MaxParens == 1    \* pairs of parentheses in such an expression
MaxShortLen == 3  \* characters in a free-form expression handed to the converter
MaxConvWords == 5 \* words in a space-separated expression handed to the converter
MaxConvCalls == 2 \* conversions in a chain, each fed the result of the one before
MaxOrderCombos == 3 \* patterns in a combo list whose order is varied
MaxBuilds == 2    \* build_from_combos calls on one matcher
MaxRebuildCombos == 1 \* patterns in a combo list handed to a matcher built more than once
MaxRebuildFeed == 2   \* process_input calls on a matcher built more than once
MaxTime == 8      \* the last reading of the clock, in half seconds
MaxHistory == 2   \* direction keys pressed between two clearings of display_history
MaxValidatorSteps == 3  \* step calls between two resets of a validator's PDA
MaxValidatorInput == 3  \* token types in an input handed to process on a validator's PDA

(***************************************************************************)
(* SoalDua/combo_definitions.py: the input alphabet and the combo names.   *)
(***************************************************************************)
Symbols == {"RIGHT", "SPACE"}
ComboNames == {"Hadoken", "Shoryuken"}

SeqsUpTo(S, n) == UNION {[1..k -> S] : k \in 0..n}

\* The combo lists handed to build_from_combos: (input_sequence, combo_name) pairs.
Combo == {<<s, c>> : s \in SeqsUpTo(Symbols, MaxSeqLen), c \in ComboNames}
ComboLists == SeqsUpTo(Combo, MaxCombos)

(***************************************************************************)
(* StateNode. transitions is a Python dict: a list of <<symbol, state_id>> *)
(* pairs in insertion order, with at most one pair per symbol.             *)
(***************************************************************************)
StateNode(id) ==
    [state_id |-> id, transitions |-> <<>>, combo_name |-> None, is_accept |-> FALSE]

Keys(transitions) == [i \in 1..Len(transitions) |-> transitions[i][1]]

HasTransition(node, input_symbol) ==
    \E i \in 1..Len(node.transitions) : node.transitions[i][1] = input_symbol

\* dict.get: the state id under the key, or None.
GetNextState(node, input_symbol) ==
    IF HasTransition(node, input_symbol)
    THEN LET i == CHOOSE j \in 1..Len(node.transitions) :
                      node.transitions[j][1] = input_symbol
         IN node.transitions[i][2]
    ELSE None

\* An assignment that drops the other keys of the dict.
AddTransitionAlone(node, input_symbol, next_state) ==
    [node EXCEPT !.transitions = << <<input_symbol, next_state>> >>]

\* dict[key] = value: replaces the value under an existing key, else appends.
AddTransition(node, input_symbol, next_state) ==
    IF HasTransition(node, input_symbol)
    THEN [node EXCEPT !.transitions =
            [i \in 1..Len(node.transitions) |->
                IF node.transitions[i][1] = input_symbol
                THEN <<input_symbol, next_state>> ELSE node.transitions[i]]]
    ELSE [node EXCEPT !.transitions = Append(node.transitions, <<input_symbol, next_state>>)]

\* A _create_state that does not advance _state_counter.
CreateStateUncounted(m) ==
    [m EXCEPT !.nodes = [i \in 0..m._state_counter |->
                            IF i < m._state_counter THEN m.nodes[i]
                            ELSE StateNode(m._state_counter)]]

(***************************************************************************)
(* ComboStateMachine. nodes maps a state id to its StateNode; root and     *)
(* current_state hold state ids.                                           *)
(***************************************************************************)
\* _create_state: a new node with the next id; the counter goes up by one.
CreateState(m) ==
    [m EXCEPT !.nodes = [i \in 0..m._state_counter |->
                            IF i < m._state_counter THEN m.nodes[i]
                            ELSE StateNode(m._state_counter)],
              !._state_counter = m._state_counter + 1]

\* __init__
NewComboStateMachine ==
    [_state_counter |-> 1,
     nodes |-> [i \in {0} |-> StateNode(0)],
     root |-> 0,
     current_state |-> 0,
     combo_list |-> <<>>,
     input_history |-> <<>>]

\* An insertion that marks every node it walks through as an accept node.
RECURSIVE InsertComboMarksEveryNode(_, _, _, _)
InsertComboMarksEveryNode(m, current, sequence, combo_name) ==
    IF sequence = <<>>
    THEN [m EXCEPT !.nodes[current].is_accept = TRUE,
                   !.nodes[current].combo_name = combo_name]
    ELSE LET input_symbol == Head(sequence)
             m1 == IF ~HasTransition(m.nodes[current], input_symbol)
                   THEN LET c == CreateState(m)
                        IN [c EXCEPT !.nodes[current] =
                               AddTransition(c.nodes[current], input_symbol, m._state_counter)]
                   ELSE m
             next_state == GetNextState(m1.nodes[current], input_symbol)
             m2 == [m1 EXCEPT !.nodes[next_state].is_accept = TRUE,
                              !.nodes[next_state].combo_name = combo_name]
         IN InsertComboMarksEveryNode(m2, next_state, Tail(sequence), combo_name)

\* An insertion that takes the accept mark off the nodes it walks through.
RECURSIVE InsertComboLongestOnly(_, _, _, _)
InsertComboLongestOnly(m, current, sequence, combo_name) ==
    IF sequence = <<>>
    THEN [m EXCEPT !.nodes[current].is_accept = TRUE,
                   !.nodes[current].combo_name = combo_name]
    ELSE LET input_symbol == Head(sequence)
             m1 == IF ~HasTransition(m.nodes[current], input_symbol)
                   THEN LET c == CreateState(m)
                        IN [c EXCEPT !.nodes[current] =
                               AddTransition(c.nodes[current], input_symbol, m._state_counter)]
                   ELSE m
             m2 == [m1 EXCEPT !.nodes[current].is_accept = FALSE]
         IN InsertComboLongestOnly(m2, GetNextState(m2.nodes[current], input_symbol),
                                   Tail(sequence), combo_name)

\* The inner loop of build_from_combos for one (sequence, combo_name).
RECURSIVE InsertCombo(_, _, _, _)
InsertCombo(m, current, sequence, combo_name) ==
    IF sequence = <<>>
    THEN [m EXCEPT !.nodes[current].is_accept = TRUE,
                   !.nodes[current].combo_name = combo_name]
    ELSE LET input_symbol == Head(sequence)
             m1 == IF ~HasTransition(m.nodes[current], input_symbol)
                   THEN LET c == CreateState(m)
                        IN [c EXCEPT !.nodes[current] =
                               AddTransition(c.nodes[current], input_symbol, m._state_counter)]
                   ELSE m
         IN InsertCombo(m1, GetNextState(m1.nodes[current], input_symbol),
                        Tail(sequence), combo_name)

RECURSIVE InsertCombos(_, _)
InsertCombos(m, combos) ==
    IF combos = <<>> THEN m
    ELSE InsertCombos(InsertCombo(m, m.root, Head(combos)[1], Head(combos)[2]),
                      Tail(combos))

BuildFromCombos(m, combos) ==
    InsertCombos([m EXCEPT !.combo_list = combos], combos)

\* A reset that forgets to clear the history.
ResetKeepsHistory(m) == [m EXCEPT !.current_state = m.root]

\* reset
Reset(m) == [m EXCEPT !.current_state = m.root, !.input_history = <<>>]

\* An accept check that reports the label and leaves the cursor on the accept node.
AcceptCheckNoReset(m) ==
    IF m.nodes[m.current_state].is_accept
    THEN [sm |-> m, ret |-> m.nodes[m.current_state].combo_name]
    ELSE [sm |-> m, ret |-> None]

\* An accept check that reads the combo name after the reset.
AcceptCheckAfterReset(m) ==
    IF m.nodes[m.current_state].is_accept
    THEN [sm |-> Reset(m), ret |-> m.nodes[m.root].combo_name]
    ELSE [sm |-> m, ret |-> None]

\* The accept check that ends process_input.
AcceptCheck(m) ==
    IF m.nodes[m.current_state].is_accept
    THEN [sm |-> Reset(m), ret |-> m.nodes[m.current_state].combo_name]
    ELSE [sm |-> m, ret |-> None]

\* A process_input whose restart from the root keeps the old history.
ProcessInputAppends(m, input_symbol) ==
    IF ~HasTransition(m.nodes[m.current_state], input_symbol)
    THEN IF ~HasTransition(m.nodes[m.root], input_symbol)
         THEN [sm |-> Reset(m), ret |-> None]
         ELSE AcceptCheck([m EXCEPT
                !.input_history = Append(m.input_history, input_symbol),
                !.current_state = GetNextState(m.nodes[m.root], input_symbol)])
    ELSE AcceptCheck([m EXCEPT
                !.input_history = Append(m.input_history, input_symbol),
                !.current_state = GetNextState(m.nodes[m.current_state], input_symbol)])

\* process_input: the machine after the call and the value returned. A dict of
\* the trie never holds None as a value, so "get_next_state(...) is None" is
\* "the node has no transition on the symbol".
ProcessInput(m, input_symbol) ==
    IF ~HasTransition(m.nodes[m.current_state], input_symbol)
    THEN IF ~HasTransition(m.nodes[m.root], input_symbol)
         THEN [sm |-> Reset(m), ret |-> None]
         ELSE AcceptCheck([m EXCEPT
                !.input_history = <<input_symbol>>,
                !.current_state = GetNextState(m.nodes[m.root], input_symbol)])
    ELSE AcceptCheck([m EXCEPT
                !.input_history = Append(m.input_history, input_symbol),
                !.current_state = GetNextState(m.nodes[m.current_state], input_symbol)])

\* get_current_state_id
GetCurrentStateId(m) == m.nodes[m.current_state].state_id

\* get_possible_transitions
GetPossibleTransitions(m) == Keys(m.nodes[m.current_state].transitions)

(***************************************************************************)
(* PDAStack. _stack is a Python list, bottom first; _history holds one     *)
(* <<action, copy of _stack>> pair per push and per successful pop.        *)
(***************************************************************************)
\* __init__
NewPDAStack(initial_symbol) ==
    [_stack |-> <<initial_symbol>>, _history |-> <<>>, _initial_symbol |-> initial_symbol]

\* push
StackPush(st, symbol) ==
    LET pushed == Append(st._stack, symbol)
    IN [st EXCEPT !._stack = pushed,
                  !._history = Append(st._history, <<"push", symbol, pushed>>)]

\* A pop that takes the bottom marker too.
StackPopBelowMarker(st) ==
    IF Len(st._stack) > 0
    THEN LET symbol == st._stack[Len(st._stack)]
             popped == SubSeq(st._stack, 1, Len(st._stack) - 1)
         IN [stack |-> [st EXCEPT !._stack = popped,
                                  !._history = Append(st._history, <<"pop", symbol, popped>>)],
             ret |-> symbol]
    ELSE [stack |-> st, ret |-> None]

\* pop: the stack after the call and the symbol returned (None on the marker).
StackPop(st) ==
    IF Len(st._stack) > 1
    THEN LET symbol == st._stack[Len(st._stack)]
             popped == SubSeq(st._stack, 1, Len(st._stack) - 1)
         IN [stack |-> [st EXCEPT !._stack = popped,
                                  !._history = Append(st._history, <<"pop", symbol, popped>>)],
             ret |-> symbol]
    ELSE [stack |-> st, ret |-> None]

\* peek
StackPeek(st) == IF st._stack # <<>> THEN st._stack[Len(st._stack)] ELSE None

\* is_empty
StackIsEmpty(st) == Len(st._stack) <= 1

\* size
StackSize(st) == Len(st._stack) - 1

\* clear
StackClear(st) == [st EXCEPT !._stack = <<st._initial_symbol>>, !._history = <<>>]

\* get_contents
StackGetContents(st) == st._stack

(***************************************************************************)
(* PDATransition. A stack_action string 'none', 'pop', 'push:X' or         *)
(* 'replace:X' is the record [op, symbol] of its prefix and the text after *)
(* the colon; any other string is [op |-> "other"].                        *)
(***************************************************************************)
ActNone == [op |-> "none", symbol |-> ""]
ActPop == [op |-> "pop", symbol |-> ""]
ActPush(x) == [op |-> "push", symbol |-> x]
ActReplace(x) == [op |-> "replace", symbol |-> x]

PDATransition(from_state, to_state, input_symbol, stack_top, stack_action) ==
    [from_state |-> from_state, to_state |-> to_state, input_symbol |-> input_symbol,
     stack_top |-> stack_top, stack_action |-> stack_action]

\* PDATransition.matches
Matches(t, current_state, input_sym, stack_top) ==
    IF t.from_state # current_state THEN FALSE
    ELSE IF t.input_symbol # None /\ t.input_symbol # input_sym THEN FALSE
    ELSE IF t.stack_top # None /\ t.stack_top # stack_top THEN FALSE
    ELSE TRUE

(***************************************************************************)
(* PushdownAutomata. states maps a state name to its state_type;           *)
(* initial_state and current_state hold state names (PDAState compares by  *)
(* name).                                                                  *)
(***************************************************************************)
\* __init__
NewPushdownAutomata ==
    [states |-> <<>>,
     transitions |-> <<>>,
     initial_state |-> None,
     current_state |-> None,
     stack |-> NewPDAStack("Z0"),
     input_alphabet |-> {},
     stack_alphabet |-> {"Z0"},
     _execution_history |-> <<>>,
     _transition_history |-> <<>>]

\* add_state
AddState(p, name, state_type) ==
    LET p1 == [p EXCEPT !.states = (name :> state_type) @@ p.states]
    IN IF state_type = "INITIAL"
       THEN [p1 EXCEPT !.initial_state = name, !.current_state = name]
       ELSE p1

\* add_transition
AddPDATransition(p, t) ==
    [p EXCEPT !.transitions = Append(p.transitions, t),
              !.input_alphabet = IF t.input_symbol # None
                                 THEN p.input_alphabet \cup {t.input_symbol}
                                 ELSE p.input_alphabet]

\* reset
PDAReset(p) ==
    [p EXCEPT !.current_state = p.initial_state,
              !.stack = StackClear(p.stack),
              !._execution_history = <<>>,
              !._transition_history = <<>>]

\* An _execute_stack_action whose 'pop' does not look at what pop() returned.
ExecuteStackActionPopUnchecked(p, action) ==
    IF action.op = "none" THEN [pda |-> p, ok |-> TRUE]
    ELSE IF action.op = "push" \/ action.op = "replace"
    THEN [pda |-> [p EXCEPT !.stack = StackPush(IF action.op = "replace"
                                                THEN StackPop(p.stack).stack ELSE p.stack,
                                                action.symbol),
                            !.stack_alphabet = p.stack_alphabet \cup {action.symbol}],
          ok |-> TRUE]
    ELSE IF action.op = "pop"
    THEN [pda |-> [p EXCEPT !.stack = StackPop(p.stack).stack], ok |-> TRUE]
    ELSE [pda |-> p, ok |-> FALSE]

\* _execute_stack_action: the automaton after the call and the boolean returned.
ExecuteStackAction(p, action) ==
    IF action.op = "none" THEN [pda |-> p, ok |-> TRUE]
    ELSE IF action.op = "push"
    THEN [pda |-> [p EXCEPT !.stack = StackPush(p.stack, action.symbol),
                            !.stack_alphabet = p.stack_alphabet \cup {action.symbol}],
          ok |-> TRUE]
    ELSE IF action.op = "pop"
    THEN LET r == StackPop(p.stack)
         IN [pda |-> [p EXCEPT !.stack = r.stack], ok |-> r.ret # None]
    ELSE IF action.op = "replace"
    THEN LET r == StackPop(p.stack)
         IN [pda |-> [p EXCEPT !.stack = StackPush(r.stack, action.symbol),
                               !.stack_alphabet = p.stack_alphabet \cup {action.symbol}],
             ok |-> TRUE]
    ELSE [pda |-> p, ok |-> FALSE]

MinOf(S) == CHOOSE i \in S : \A j \in S : i <= j
MaxOf(S) == CHOOSE i \in S : \A j \in S : i >= j

\* A _find_transition that keeps the last match of the loop.
FindTransitionLast(p, input_symbol) ==
    LET stack_top == StackPeek(p.stack)
        matching == {i \in 1..Len(p.transitions) :
                        Matches(p.transitions[i], p.current_state, input_symbol, stack_top)}
    IN IF matching # {} THEN MaxOf(matching) ELSE 0

\* _find_transition: the index in transitions of the transition returned, 0 for
\* None. The first loop returns the first match; the second loop runs when the
\* first found none and looks for a match with None as the input symbol.
FindTransition(p, input_symbol) ==
    LET stack_top == StackPeek(p.stack)
        matching == {i \in 1..Len(p.transitions) :
                        Matches(p.transitions[i], p.current_state, input_symbol, stack_top)}
        epsilon == {i \in 1..Len(p.transitions) :
                        Matches(p.transitions[i], p.current_state, None, stack_top)}
    IN IF matching # {} THEN MinOf(matching)
       ELSE IF input_symbol # None /\ epsilon # {} THEN MinOf(epsilon)
       ELSE 0

PDAConfiguration(state, remaining_input, stack_contents) ==
    [state |-> state, remaining_input |-> remaining_input, stack_contents |-> stack_contents]

\* An error path of step that leaves the automaton in the state it was in.
ToErrorStateStaying(p) == p

\* The state of the step's error path: q_error when a state of that name exists.
ToErrorState(p) ==
    IF "q_error" \in DOMAIN p.states THEN [p EXCEPT !.current_state = "q_error"] ELSE p

\* The two error messages of step. The first is formatted after the move to
\* q_error, from the current state's name at that moment.
NoTransitionMessage(input_symbol, state) ==
    [text |-> "No valid transition for input in state", input |-> input_symbol, state |-> state]
StackActionMessage(action) ==
    [text |-> "Stack action failed", action |-> action]
NoMessage == [text |-> None]

\* step: the automaton after the call, the success flag and the error message.
Step(p, input_symbol) ==
    LET config == PDAConfiguration(p.current_state, input_symbol, StackGetContents(p.stack))
        p1 == [p EXCEPT !._execution_history = Append(p._execution_history, config)]
        transition == FindTransition(p1, input_symbol)
    IN IF transition = 0
       THEN LET p2 == ToErrorState(p1)
            IN [pda |-> p2, ok |-> FALSE,
                error |-> NoTransitionMessage(input_symbol, p2.current_state)]
       ELSE LET t == p1.transitions[transition]
            IN Only({ IF ~r.ok
                      THEN [pda |-> ToErrorState(r.pda), ok |-> FALSE,
                            error |-> StackActionMessage(t.stack_action)]
                      ELSE [pda |-> [r.pda EXCEPT
                                       !.current_state = t.to_state,
                                       !._transition_history =
                                           Append(r.pda._transition_history, t)],
                            ok |-> TRUE, error |-> NoMessage] :
                      r \in {ExecuteStackAction(p1, t.stack_action)} })

\* A loop that goes on after a failed step.
RECURSIVE StepAllNoStop(_, _)
StepAllNoStop(p, input) ==
    IF input = <<>> THEN [pda |-> p, ok |-> TRUE, error |-> NoMessage]
    ELSE Only({ IF ~r.ok /\ Tail(input) = <<>> THEN r
                ELSE StepAllNoStop(r.pda, Tail(input)) :
                r \in {Step(p, Head(input))} })

\* The for loop of process: step the symbols until one fails.
RECURSIVE StepAll(_, _)
StepAll(p, input) ==
    IF input = <<>> THEN [pda |-> p, ok |-> TRUE, error |-> NoMessage]
    ELSE Only({ IF ~r.ok THEN r ELSE StepAll(r.pda, Tail(input)) :
                r \in {Step(p, Head(input))} })

\* process: the automaton after the call, the verdict and the message; the
\* third component returned is _execution_history of the automaton after.
Process(p, input_string) ==
    Only({
      LET final == r.pda.states[r.pda.current_state]
      IN IF ~r.ok THEN [pda |-> r.pda, accepted |-> FALSE, message |-> r.error]
         ELSE IF final = "ACCEPTING"
         THEN [pda |-> r.pda, accepted |-> TRUE, message |-> [text |-> "Input accepted"]]
         ELSE IF final = "ERROR"
         THEN [pda |-> r.pda, accepted |-> FALSE, message |-> [text |-> "Ended in error state"]]
         ELSE [pda |-> r.pda, accepted |-> FALSE,
               message |-> [text |-> "Ended in non-accepting state",
                            state |-> r.pda.current_state]] :
      r \in {StepAll(PDAReset(p), input_string)} })

\* is_accepting
IsAccepting(p) == p.current_state # None /\ p.states[p.current_state] = "ACCEPTING"

(***************************************************************************)
(* ExpressionTokenizer. An expression is a sequence of characters; a token *)
(* is the sequence of its characters, and the token f"INVALID:{char}" is   *)
(* <<"INVALID:", char>>.                                                   *)
(***************************************************************************)
OPERATORS == {"+", "-", "*", "/"}
DIGITS == {"0", "1", "2", "3", "4", "5", "6", "7", "8", "9"}
PARENTHESES == {"(", ")"}
Whitespace == {" "}

\* The loop of tokenize_infix: the tokens so far and the number being read.
RECURSIVE TokenizeInfixFrom(_, _, _)
TokenizeInfixFrom(expression, tokens, current_number) ==
    IF expression = <<>>
    THEN IF current_number # <<>> THEN Append(tokens, current_number) ELSE tokens
    ELSE LET char == Head(expression)
             flushed == IF current_number # <<>> THEN Append(tokens, current_number)
                        ELSE tokens
         IN IF char \in DIGITS
            THEN TokenizeInfixFrom(Tail(expression), tokens, Append(current_number, char))
            ELSE IF char \in OPERATORS \/ char \in PARENTHESES
            THEN TokenizeInfixFrom(Tail(expression), Append(flushed, <<char>>), <<>>)
            ELSE IF char \in Whitespace
            THEN TokenizeInfixFrom(Tail(expression), flushed, <<>>)
            ELSE TokenizeInfixFrom(Tail(expression),
                                   Append(flushed, <<"INVALID:", char>>), <<>>)

\* tokenize_infix
TokenizeInfix(expression) == TokenizeInfixFrom(expression, <<>>, <<>>)

\* A character outside DIGITS that str.isdigit takes for a digit: the
\* Arabic-Indic digit three, written by its code point.
OtherDigits == {"U+0663"}

\* str.isdigit
IsDigit(token) ==
    token # <<>> /\ \A i \in 1..Len(token) : token[i] \in DIGITS \cup OtherDigits

\* classify_token
ClassifyToken(token) ==
    IF token # <<>> /\ token[1] = "INVALID:" THEN "INVALID"
    ELSE IF Len(token) = 1 /\ token[1] \in OPERATORS THEN "OPERATOR"
    ELSE IF token = <<"(">> THEN "LPAREN"
    ELSE IF token = <<")">> THEN "RPAREN"
    ELSE IF IsDigit(token) THEN "OPERAND"
    ELSE "INVALID"

(***************************************************************************)
(* InfixValidator.                                                         *)
(***************************************************************************)
\* A table whose q_expect_operator has a move to q_accept on an operand.
InfixTransitionsAccepting ==
    << PDATransition("q_start", "q_expect_operator", "OPERAND", None, ActNone),
       PDATransition("q_start", "q_expect_operand", "LPAREN", None, ActPush("(")),
       PDATransition("q_expect_operand", "q_expect_operator", "OPERAND", None, ActNone),
       PDATransition("q_expect_operand", "q_expect_operand", "LPAREN", None, ActPush("(")),
       PDATransition("q_expect_operator", "q_expect_operand", "OPERATOR", None, ActNone),
       PDATransition("q_expect_operator", "q_expect_operator", "RPAREN", "(", ActPop),
       PDATransition("q_expect_operator", "q_accept", "OPERAND", None, ActNone) >>

\* A table that lets an operator follow the start state.
InfixTransitionsUnary ==
    << PDATransition("q_start", "q_expect_operator", "OPERAND", None, ActNone),
       PDATransition("q_start", "q_expect_operand", "LPAREN", None, ActPush("(")),
       PDATransition("q_start", "q_expect_operand", "OPERATOR", None, ActNone),
       PDATransition("q_expect_operand", "q_expect_operator", "OPERAND", None, ActNone),
       PDATransition("q_expect_operand", "q_expect_operand", "LPAREN", None, ActPush("(")),
       PDATransition("q_expect_operator", "q_expect_operand", "OPERATOR", None, ActNone),
       PDATransition("q_expect_operator", "q_expect_operator", "RPAREN", "(", ActPop) >>

\* The add_transition calls of _build_pda, in order.
InfixTransitions ==
    << PDATransition("q_start", "q_expect_operator", "OPERAND", None, ActNone),
       PDATransition("q_start", "q_expect_operand", "LPAREN", None, ActPush("(")),
       PDATransition("q_expect_operand", "q_expect_operator", "OPERAND", None, ActNone),
       PDATransition("q_expect_operand", "q_expect_operand", "LPAREN", None, ActPush("(")),
       PDATransition("q_expect_operator", "q_expect_operand", "OPERATOR", None, ActNone),
       PDATransition("q_expect_operator", "q_expect_operator", "RPAREN", "(", ActPop) >>

\* The add_state calls of _build_pda, in order.
InfixStates ==
    << <<"q_start", "INITIAL">>, <<"q_expect_operand", "NORMAL">>,
       <<"q_expect_operator", "NORMAL">>, <<"q_accept", "ACCEPTING">>,
       <<"q_error", "ERROR">> >>

RECURSIVE AddStates(_, _)
AddStates(p, states) ==
    IF states = <<>> THEN p
    ELSE AddStates(AddState(p, Head(states)[1], Head(states)[2]), Tail(states))

RECURSIVE AddPDATransitions(_, _)
AddPDATransitions(p, table) ==
    IF table = <<>> THEN p
    ELSE AddPDATransitions(AddPDATransition(p, Head(table)), Tail(table))

\* __init__ and _build_pda
NewInfixValidator ==
    [pda |-> AddPDATransitions(AddStates(NewPushdownAutomata, InfixStates), InfixTransitions)]

ValidationResult(is_valid, notation, message, execution_trace, final_state) ==
    [is_valid |-> is_valid, notation |-> notation, message |-> message,
     execution_trace |-> execution_trace, final_state |-> final_state]

\* One line of the execution trace of InfixValidator.validate.
InfixTraceEntry(token, token_type, before, after, stack) ==
    [token |-> token, token_type |-> token_type, from |-> before, to |-> after,
     stack |-> stack]

\* A token loop that records a line of the trace for an unrecognised token
\* before it returns.
RECURSIVE InfixValidateLoopTracesInvalid(_, _, _)
InfixValidateLoopTracesInvalid(p, tokens, execution_trace) ==
    IF tokens = <<>>
    THEN [pda |-> p, returned |-> FALSE, execution_trace |-> execution_trace]
    ELSE LET token == Head(tokens)
             token_type == ClassifyToken(token)
         IN IF token_type = "INVALID"
            THEN [pda |-> p, returned |-> TRUE,
                  result |-> ValidationResult(FALSE, "INFIX",
                                [text |-> "Invalid token", token |-> token],
                                Append(execution_trace,
                                       InfixTraceEntry(token, token_type, p.current_state,
                                           p.current_state, StackGetContents(p.stack))),
                                "q_error")]
            ELSE Only({
                   LET trace == Append(execution_trace,
                                  InfixTraceEntry(token, token_type, p.current_state,
                                      r.pda.current_state, StackGetContents(r.pda.stack)))
                   IN IF ~r.ok
                      THEN [pda |-> r.pda, returned |-> TRUE,
                            result |-> ValidationResult(FALSE, "INFIX", r.error, trace,
                                                        r.pda.current_state)]
                      ELSE InfixValidateLoopTracesInvalid(r.pda, Tail(tokens), trace) :
                   r \in {Step(p, token_type)} })

\* The token loop of InfixValidator.validate: the validator after the loop, the
\* trace, and the result returned from inside the loop, if one was.
RECURSIVE InfixValidateLoop(_, _, _)
InfixValidateLoop(p, tokens, execution_trace) ==
    IF tokens = <<>>
    THEN [pda |-> p, returned |-> FALSE, execution_trace |-> execution_trace]
    ELSE LET token == Head(tokens)
             token_type == ClassifyToken(token)
         IN IF token_type = "INVALID"
            THEN [pda |-> p, returned |-> TRUE,
                  result |-> ValidationResult(FALSE, "INFIX",
                                [text |-> "Invalid token", token |-> token],
                                execution_trace, "q_error")]
            ELSE Only({
                   LET trace == Append(execution_trace,
                                  InfixTraceEntry(token, token_type, p.current_state,
                                      r.pda.current_state, StackGetContents(r.pda.stack)))
                   IN IF ~r.ok
                      THEN [pda |-> r.pda, returned |-> TRUE,
                            result |-> ValidationResult(FALSE, "INFIX", r.error, trace,
                                                        r.pda.current_state)]
                      ELSE InfixValidateLoop(r.pda, Tail(tokens), trace) :
                   r \in {Step(p, token_type)} })

\* validate with the end-of-input tests in another order: the final state is
\* looked at before the stack.
InfixValidateStateFirst(v, expression) ==
    LET p0 == PDAReset(v.pda)
        tokens == TokenizeInfix(expression)
    IN IF tokens = <<>>
       THEN [validator |-> [v EXCEPT !.pda = p0],
             result |-> ValidationResult(FALSE, "INFIX", [text |-> "Empty expression"],
                                         <<"No tokens to process">>, "q_error")]
       ELSE Only({
              LET final_state == l.pda.current_state
                  stack_empty == StackIsEmpty(l.pda.stack)
              IN [validator |-> [v EXCEPT !.pda = l.pda],
                  result |->
                  IF l.returned THEN l.result
                  ELSE IF final_state = "q_expect_operator" /\ stack_empty
                  THEN ValidationResult(TRUE, "INFIX", [text |-> "Valid infix expression"],
                                        l.execution_trace, final_state)
                  ELSE IF final_state # "q_expect_operator"
                  THEN ValidationResult(FALSE, "INFIX",
                                        [text |-> "Expression incomplete - ended in state",
                                         state |-> final_state],
                                        l.execution_trace, final_state)
                  ELSE ValidationResult(FALSE, "INFIX",
                                        [text |-> "Unmatched opening parenthesis"],
                                        l.execution_trace, final_state)] :
              l \in {InfixValidateLoop(p0, tokens, <<>>)} })

\* InfixValidator.validate: the validator after the call and the result.
InfixValidate(v, expression) ==
    LET p0 == PDAReset(v.pda)
        tokens == TokenizeInfix(expression)
    IN IF tokens = <<>>
       THEN [validator |-> [v EXCEPT !.pda = p0],
             result |-> ValidationResult(FALSE, "INFIX", [text |-> "Empty expression"],
                                         <<"No tokens to process">>, "q_error")]
       ELSE Only({
              LET final_state == l.pda.current_state
                  stack_empty == StackIsEmpty(l.pda.stack)
              IN [validator |-> [v EXCEPT !.pda = l.pda],
                  result |->
                  IF l.returned THEN l.result
                  ELSE IF final_state = "q_expect_operator" /\ stack_empty
                  THEN ValidationResult(TRUE, "INFIX", [text |-> "Valid infix expression"],
                                        l.execution_trace, final_state)
                  ELSE IF ~stack_empty
                  THEN ValidationResult(FALSE, "INFIX",
                                        [text |-> "Unmatched opening parenthesis"],
                                        l.execution_trace, final_state)
                  ELSE ValidationResult(FALSE, "INFIX",
                                        [text |-> "Expression incomplete - ended in state",
                                         state |-> final_state],
                                        l.execution_trace, final_state)] :
              l \in {InfixValidateLoop(p0, tokens, <<>>)} })

(***************************************************************************)
(* tokenize_postfix and tokenize_prefix. str.split() cuts the expression   *)
(* at runs of whitespace and yields no empty word; the token               *)
(* f"INVALID:{token}" is <<"INVALID:">> followed by the word's characters. *)
(***************************************************************************)
\* q[-1]
Last(q) == q[Len(q)]

\* list(reversed(...))
Reverse(q) == [i \in 1..Len(q) |-> q[Len(q) + 1 - i]]

\* str.split(): the words so far and the word being read.
RECURSIVE SplitFrom(_, _, _)
SplitFrom(expression, words, current) ==
    IF expression = <<>>
    THEN IF current # <<>> THEN Append(words, current) ELSE words
    ELSE LET char == Head(expression)
         IN IF char \in Whitespace
            THEN SplitFrom(Tail(expression),
                           IF current # <<>> THEN Append(words, current) ELSE words,
                           <<>>)
            ELSE SplitFrom(Tail(expression), words, Append(current, char))

Split(expression) == SplitFrom(expression, <<>>, <<>>)

\* ' '.join(words)
RECURSIVE JoinWords(_)
JoinWords(words) ==
    IF words = <<>> THEN <<>>
    ELSE IF Len(words) = 1 THEN words[1]
    ELSE words[1] \o <<" ">> \o JoinWords(Tail(words))

\* The body of the loop of tokenize_postfix for one word.
PostfixToken(word) ==
    IF Len(word) = 1 /\ word[1] \in OPERATORS THEN word
    ELSE IF IsDigit(word) THEN word
    ELSE <<"INVALID:">> \o word

\* tokenize_postfix
TokenizePostfix(expression) ==
    LET words == Split(expression)
    IN [i \in 1..Len(words) |-> PostfixToken(words[i])]

\* tokenize_prefix
TokenizePrefix(expression) == TokenizePostfix(expression)

(***************************************************************************)
(* PostfixValidator and PrefixValidator.                                   *)
(***************************************************************************)
\* The add_state calls of PostfixValidator._build_pda and of
\* PrefixValidator._build_pda, in order.
PolishStates ==
    << <<"q_start", "INITIAL">>, <<"q_processing", "NORMAL">>,
       <<"q_accept", "ACCEPTING">>, <<"q_error", "ERROR">> >>

\* The add_transition calls of PostfixValidator._build_pda, in order.
PostfixTransitions ==
    << PDATransition("q_start", "q_processing", "OPERAND", None, ActPush("X")),
       PDATransition("q_processing", "q_processing", "OPERAND", None, ActPush("X")) >>

NewPostfixValidator ==
    [pda |-> AddPDATransitions(AddStates(NewPushdownAutomata, PolishStates),
                               PostfixTransitions)]

NewPrefixValidator == [pda |-> AddStates(NewPushdownAutomata, PolishStates)]

\* One line of the execution trace of PostfixValidator.validate; the lines of
\* PrefixValidator.validate carry the mark [R->L].
PolishTraceEntry(token, token_type, operand_count, stack, right_to_left) ==
    [token |-> token, token_type |-> token_type, operands |-> operand_count,
     stack |-> stack, right_to_left |-> right_to_left]

NotEnoughOperands(token) == [text |-> "Not enough operands for operator", token |-> token]
TooManyOperands(operand_count) ==
    [text |-> "Too many operands - missing operators", count |-> operand_count]
NoResult == [text |-> "No result - expression is incomplete"]
InvalidToken(token) == [text |-> "Invalid token", token |-> token]

\* An early return of the token loop of validate: the result, with the PDA and
\* the counter as they are.
PolishRejected(p, operand_count, execution_trace, notation, message) ==
    [pda |-> p, returned |-> TRUE, operand_count |-> operand_count,
     result |-> ValidationResult(FALSE, notation, message, execution_trace, "q_error")]

\* A token loop whose operators ask for one operand only.
RECURSIVE PostfixValidateLoopOneOperand(_, _, _, _)
PostfixValidateLoopOneOperand(p, tokens, execution_trace, operand_count) ==
    IF tokens = <<>>
    THEN [pda |-> p, returned |-> FALSE, execution_trace |-> execution_trace,
          operand_count |-> operand_count]
    ELSE LET token == Head(tokens)
             token_type == ClassifyToken(token)
             \* the counter and the stack after an operand or an accepted operator
             count == IF token_type = "OPERAND" THEN operand_count + 1
                      ELSE operand_count - 1
             p1 == [p EXCEPT !.stack = IF token_type = "OPERAND"
                                       THEN StackPush(p.stack, "X")
                                       ELSE StackPop(p.stack).stack]
         IN IF token_type = "INVALID"
            THEN PolishRejected(p, operand_count, execution_trace, "POSTFIX",
                                InvalidToken(token))
            ELSE IF token_type \in {"LPAREN", "RPAREN"}
            THEN PolishRejected(p, operand_count, execution_trace, "POSTFIX",
                     [text |-> "Parentheses not allowed in postfix notation"])
            ELSE IF token_type # "OPERAND" /\ operand_count < 1
            THEN PolishRejected(p, operand_count, execution_trace, "POSTFIX",
                                NotEnoughOperands(token))
            ELSE PostfixValidateLoopOneOperand(p1, Tail(tokens),
                     Append(execution_trace,
                            PolishTraceEntry(token, token_type, count,
                                             StackGetContents(p1.stack), FALSE)),
                     count)

\* The token loop of PostfixValidator.validate: the PDA, the counter and the
\* trace after the loop, and the result returned from inside the loop, if one was.
RECURSIVE PostfixValidateLoop(_, _, _, _)
PostfixValidateLoop(p, tokens, execution_trace, operand_count) ==
    IF tokens = <<>>
    THEN [pda |-> p, returned |-> FALSE, execution_trace |-> execution_trace,
          operand_count |-> operand_count]
    ELSE LET token == Head(tokens)
             token_type == ClassifyToken(token)
             \* the counter and the stack after an operand or an accepted operator
             count == IF token_type = "OPERAND" THEN operand_count + 1
                      ELSE operand_count - 1
             p1 == [p EXCEPT !.stack = IF token_type = "OPERAND"
                                       THEN StackPush(p.stack, "X")
                                       ELSE StackPop(p.stack).stack]
         IN IF token_type = "INVALID"
            THEN PolishRejected(p, operand_count, execution_trace, "POSTFIX",
                                InvalidToken(token))
            ELSE IF token_type \in {"LPAREN", "RPAREN"}
            THEN PolishRejected(p, operand_count, execution_trace, "POSTFIX",
                     [text |-> "Parentheses not allowed in postfix notation"])
            ELSE IF token_type # "OPERAND" /\ operand_count < 2
            THEN PolishRejected(p, operand_count, execution_trace, "POSTFIX",
                                NotEnoughOperands(token))
            ELSE PostfixValidateLoop(p1, Tail(tokens),
                     Append(execution_trace,
                            PolishTraceEntry(token, token_type, count,
                                             StackGetContents(p1.stack), FALSE)),
                     count)

\* An end of validate that is content with one operand or more.
FinalVerdictAtLeastOne(notation, valid_text, operand_count, execution_trace) ==
    IF operand_count >= 1
    THEN ValidationResult(TRUE, notation, [text |-> valid_text], execution_trace,
                          "q_accept")
    ELSE ValidationResult(FALSE, notation, NoResult, execution_trace, "q_error")

\* The end of validate of either validator: the verdict by the final counter.
FinalVerdict(notation, valid_text, operand_count, execution_trace) ==
    IF operand_count = 1
    THEN ValidationResult(TRUE, notation, [text |-> valid_text], execution_trace,
                          "q_accept")
    ELSE IF operand_count > 1
    THEN ValidationResult(FALSE, notation, TooManyOperands(operand_count),
                          execution_trace, "q_error")
    ELSE ValidationResult(FALSE, notation, NoResult, execution_trace, "q_error")

\* PostfixValidator.validate: the validator after the call and the result.
PostfixValidate(v, expression) ==
    LET p0 == PDAReset(v.pda)
        tokens == TokenizePostfix(expression)
    IN IF tokens = <<>>
       THEN [validator |-> [v EXCEPT !.pda = p0],
             result |-> ValidationResult(FALSE, "POSTFIX", [text |-> "Empty expression"],
                                         <<"No tokens to process">>, "q_error")]
       ELSE Only({ [validator |-> [v EXCEPT !.pda = l.pda],
                    result |-> IF l.returned THEN l.result
                               ELSE FinalVerdict("POSTFIX", "Valid postfix expression",
                                                 l.operand_count, l.execution_trace)] :
                   l \in {PostfixValidateLoop(p0, tokens, <<>>, 0)} })

\* The token loop of PrefixValidator.validate, over the reversed tokens.
RECURSIVE PrefixValidateLoop(_, _, _, _)
PrefixValidateLoop(p, tokens, execution_trace, operand_count) ==
    IF tokens = <<>>
    THEN [pda |-> p, returned |-> FALSE, execution_trace |-> execution_trace,
          operand_count |-> operand_count]
    ELSE LET token == Head(tokens)
             token_type == ClassifyToken(token)
             \* the counter and the stack after an operand or an accepted operator
             count == IF token_type = "OPERAND" THEN operand_count + 1
                      ELSE operand_count - 1
             p1 == [p EXCEPT !.stack = IF token_type = "OPERAND"
                                       THEN StackPush(p.stack, "X")
                                       ELSE StackPop(p.stack).stack]
         IN IF token_type = "INVALID"
            THEN PolishRejected(p, operand_count, execution_trace, "PREFIX",
                                InvalidToken(token))
            ELSE IF token_type \in {"LPAREN", "RPAREN"}
            THEN PolishRejected(p, operand_count, execution_trace, "PREFIX",
                     [text |-> "Parentheses not allowed in prefix notation"])
            ELSE IF token_type # "OPERAND" /\ operand_count < 2
            THEN PolishRejected(p, operand_count, execution_trace, "PREFIX",
                                NotEnoughOperands(token))
            ELSE PrefixValidateLoop(p1, Tail(tokens),
                     Append(execution_trace,
                            PolishTraceEntry(token, token_type, count,
                                             StackGetContents(p1.stack), TRUE)),
                     count)

\* validate without the right-to-left reading of the tokens.
PrefixValidateLeftToRight(v, expression) ==
    LET p0 == PDAReset(v.pda)
        tokens == TokenizePrefix(expression)
    IN IF tokens = <<>>
       THEN [validator |-> [v EXCEPT !.pda = p0],
             result |-> ValidationResult(FALSE, "PREFIX", [text |-> "Empty expression"],
                                         <<"No tokens to process">>, "q_error")]
       ELSE Only({ [validator |-> [v EXCEPT !.pda = l.pda],
                    result |-> IF l.returned THEN l.result
                               ELSE FinalVerdict("PREFIX", "Valid prefix expression",
                                                 l.operand_count, l.execution_trace)] :
                   l \in {PrefixValidateLoop(p0, tokens, <<>>, 0)} })

\* PrefixValidator.validate: the validator after the call and the result.
PrefixValidate(v, expression) ==
    LET p0 == PDAReset(v.pda)
        tokens == TokenizePrefix(expression)
    IN IF tokens = <<>>
       THEN [validator |-> [v EXCEPT !.pda = p0],
             result |-> ValidationResult(FALSE, "PREFIX", [text |-> "Empty expression"],
                                         <<"No tokens to process">>, "q_error")]
       ELSE Only({ [validator |-> [v EXCEPT !.pda = l.pda],
                    result |-> IF l.returned THEN l.result
                               ELSE FinalVerdict("PREFIX", "Valid prefix expression",
                                                 l.operand_count, l.execution_trace)] :
                   l \in {PrefixValidateLoop(p0, Reverse(tokens), <<>>, 0)} })

(***************************************************************************)
(* ExpressionValidator: one validator of each notation.                    *)
(***************************************************************************)
NewExpressionValidator ==
    [infix_validator |-> NewInfixValidator,
     postfix_validator |-> NewPostfixValidator,
     prefix_validator |-> NewPrefixValidator]

\* ExpressionValidator.validate: the object after the call and the result.
ExpressionValidatorValidate(ev, expression, notation) ==
    IF notation = "INFIX"
    THEN Only({ [validator |-> [ev EXCEPT !.infix_validator = r.validator],
                 result |-> r.result] :
                r \in {InfixValidate(ev.infix_validator, expression)} })
    ELSE IF notation = "POSTFIX"
    THEN Only({ [validator |-> [ev EXCEPT !.postfix_validator = r.validator],
                 result |-> r.result] :
                r \in {PostfixValidate(ev.postfix_validator, expression)} })
    ELSE IF notation = "PREFIX"
    THEN Only({ [validator |-> [ev EXCEPT !.prefix_validator = r.validator],
                 result |-> r.result] :
                r \in {PrefixValidate(ev.prefix_validator, expression)} })
    ELSE [validator |-> ev,
          result |-> ValidationResult(FALSE, notation, [text |-> "Unknown notation type"],
                                      <<>>, "q_error")]

(***************************************************************************)
(* SoalSatu/expression_converter.py: ExpressionConverter. A step of the    *)
(* trace is a record of the text and of the values formatted into it.      *)
(***************************************************************************)
\* The convenience functions of expression_validator.py: a new validator per call.
ValidateInfix(expression) == InfixValidate(NewInfixValidator, expression).result
ValidatePostfix(expression) == PostfixValidate(NewPostfixValidator, expression).result
ValidatePrefix(expression) == PrefixValidate(NewPrefixValidator, expression).result

\* The default error_message, "".
NoError == [text |-> ""]

ConversionResult(success, source_notation, target_notation, source_expression, result_expression, steps, error_message) ==
    [success |-> success, source_notation |-> source_notation,
     target_notation |-> target_notation, source_expression |-> source_expression,
     result_expression |-> result_expression, steps |-> steps,
     error_message |-> error_message]

\* A failure that carries the validator's execution trace before the message.
ValidationFailedWithTrace(source_notation, target_notation, expression, validation) ==
    ConversionResult(FALSE, source_notation, target_notation, expression, <<>>,
                     Append(validation.execution_trace,
                            [text |-> "Validation failed", message |-> validation.message]),
                     validation.message)

\* The result every conversion returns when the validation of its input fails.
ValidationFailed(source_notation, target_notation, expression, validation) ==
    ConversionResult(FALSE, source_notation, target_notation, expression, <<>>,
                     << [text |-> "Validation failed", message |-> validation.message] >>,
                     validation.message)

\* PRECEDENCE and _get_precedence
GetPrecedence(operator) ==
    IF operator \in {<<"+">>, <<"-">>} THEN 1
    ELSE IF operator \in {<<"*">>, <<"/">>} THEN 2
    ELSE 0

\* LEFT_ASSOCIATIVE and _is_left_associative
IsLeftAssociative(operator) == TRUE

\* _is_operator
IsOperator(token) == token \in {<<"+">>, <<"-">>, <<"*">>, <<"/">>}

\* _is_operand
IsOperand(token) == IsDigit(token)

\* operator_stack[:-1]
Front(q) == SubSeq(q, 1, Len(q) - 1)

\* A loop that pops on greater precedence only, whatever the associativity.
RECURSIVE PopForOperatorHigherOnly(_, _, _)
PopForOperatorHigherOnly(output, operator_stack, token) ==
    IF /\ operator_stack # <<>>
       /\ Last(operator_stack) # <<"(">>
       /\ IsOperator(Last(operator_stack))
       /\ GetPrecedence(Last(operator_stack)) > GetPrecedence(token)
    THEN PopForOperatorHigherOnly(Append(output, Last(operator_stack)),
                                  Front(operator_stack), token)
    ELSE [output |-> output, operator_stack |-> operator_stack]

\* The while loop of an operator in infix_to_postfix: operators of greater
\* precedence, or of equal precedence when the token is left associative, leave
\* the stack for the output.
RECURSIVE PopForOperator(_, _, _)
PopForOperator(output, operator_stack, token) ==
    IF /\ operator_stack # <<>>
       /\ Last(operator_stack) # <<"(">>
       /\ IsOperator(Last(operator_stack))
       /\ \/ GetPrecedence(Last(operator_stack)) > GetPrecedence(token)
          \/ /\ GetPrecedence(Last(operator_stack)) = GetPrecedence(token)
             /\ IsLeftAssociative(token)
    THEN PopForOperator(Append(output, Last(operator_stack)), Front(operator_stack), token)
    ELSE [output |-> output, operator_stack |-> operator_stack]

\* A loop that pops on greater or equal precedence.
RECURSIVE PopForOperatorGreaterOrEqual(_, _, _)
PopForOperatorGreaterOrEqual(output, operator_stack, token) ==
    IF /\ operator_stack # <<>>
       /\ Last(operator_stack) # <<"(">>
       /\ IsOperator(Last(operator_stack))
       /\ GetPrecedence(Last(operator_stack)) >= GetPrecedence(token)
    THEN PopForOperatorGreaterOrEqual(Append(output, Last(operator_stack)),
                                      Front(operator_stack), token)
    ELSE [output |-> output, operator_stack |-> operator_stack]

\* The while loop of an operator in infix_to_prefix: only operators of greater
\* precedence leave the stack.
RECURSIVE PopForOperatorStrict(_, _, _)
PopForOperatorStrict(output, operator_stack, token) ==
    IF /\ operator_stack # <<>>
       /\ Last(operator_stack) # <<"(">>
       /\ IsOperator(Last(operator_stack))
       /\ GetPrecedence(Last(operator_stack)) > GetPrecedence(token)
    THEN PopForOperatorStrict(Append(output, Last(operator_stack)),
                              Front(operator_stack), token)
    ELSE [output |-> output, operator_stack |-> operator_stack]

\* The handling of ')': pop to the output down to '(' and drop the '('.
RECURSIVE PopToParenthesis(_, _)
PopToParenthesis(output, operator_stack) ==
    IF operator_stack # <<>> /\ Last(operator_stack) # <<"(">>
    THEN PopToParenthesis(Append(output, Last(operator_stack)), Front(operator_stack))
    ELSE [output |-> output,
          operator_stack |-> IF operator_stack # <<>> THEN Front(operator_stack)
                             ELSE operator_stack]

\* The final while loop: every operator left on the stack goes to the output,
\* top first.
PopRemaining(output, operator_stack) == output \o Reverse(operator_stack)

\* The token loop of infix_to_postfix (Shunting-yard).
RECURSIVE InfixToPostfixLoop(_, _, _, _)
InfixToPostfixLoop(tokens, output, operator_stack, steps) ==
    IF tokens = <<>>
    THEN [output |-> output, operator_stack |-> operator_stack, steps |-> steps]
    ELSE LET token == Head(tokens)
             step(text, r) == [text |-> text, token |-> token, output |-> r.output,
                               stack |-> r.operator_stack]
         IN IF IsOperand(token)
            THEN LET r == [output |-> Append(output, token),
                           operator_stack |-> operator_stack]
                 IN InfixToPostfixLoop(Tail(tokens), r.output, r.operator_stack,
                                       Append(steps, step("Operand", r)))
            ELSE IF IsOperator(token)
            THEN LET popped == PopForOperator(output, operator_stack, token)
                     r == [output |-> popped.output,
                           operator_stack |-> Append(popped.operator_stack, token)]
                 IN InfixToPostfixLoop(Tail(tokens), r.output, r.operator_stack,
                                       Append(steps, step("Operator", r)))
            ELSE IF token = <<"(">>
            THEN LET r == [output |-> output,
                           operator_stack |-> Append(operator_stack, token)]
                 IN InfixToPostfixLoop(Tail(tokens), r.output, r.operator_stack,
                                       Append(steps, step("'('", r)))
            ELSE IF token = <<")">>
            THEN LET r == PopToParenthesis(output, operator_stack)
                 IN InfixToPostfixLoop(Tail(tokens), r.output, r.operator_stack,
                                       Append(steps, step("')'", r)))
            ELSE InfixToPostfixLoop(Tail(tokens), output, operator_stack, steps)

\* infix_to_postfix
InfixToPostfix(expression) ==
    LET validation == ValidateInfix(expression)
    IN IF ~validation.is_valid
       THEN ValidationFailed("INFIX", "POSTFIX", expression, validation)
       ELSE LET tokens == TokenizeInfix(expression)
                l == InfixToPostfixLoop(tokens, <<>>, <<>>,
                                        << [text |-> "Input tokens", tokens |-> tokens] >>)
                output == PopRemaining(l.output, l.operator_stack)
                result == JoinWords(output)
            IN ConversionResult(TRUE, "INFIX", "POSTFIX", expression, result,
                   Append(l.steps, [text |-> "Final result", result |-> result]),
                   NoError)

\* Step 2 of infix_to_prefix: '(' and ')' change places.
SwapParentheses(tokens) ==
    [i \in 1..Len(tokens) |->
        IF tokens[i] = <<"(">> THEN <<")">>
        ELSE IF tokens[i] = <<")">> THEN <<"(">>
        ELSE tokens[i]]

\* Step 3 of infix_to_prefix: the modified Shunting-yard loop.
RECURSIVE InfixToPrefixLoop(_, _, _)
InfixToPrefixLoop(tokens, output, operator_stack) ==
    IF tokens = <<>>
    THEN [output |-> output, operator_stack |-> operator_stack]
    ELSE LET token == Head(tokens)
         IN IF IsOperand(token)
            THEN InfixToPrefixLoop(Tail(tokens), Append(output, token), operator_stack)
            ELSE IF IsOperator(token)
            THEN LET popped == PopForOperatorStrict(output, operator_stack, token)
                 IN InfixToPrefixLoop(Tail(tokens), popped.output,
                                      Append(popped.operator_stack, token))
            ELSE IF token = <<"(">>
            THEN InfixToPrefixLoop(Tail(tokens), output, Append(operator_stack, token))
            ELSE IF token = <<")">>
            THEN LET r == PopToParenthesis(output, operator_stack)
                 IN InfixToPrefixLoop(Tail(tokens), r.output, r.operator_stack)
            ELSE InfixToPrefixLoop(Tail(tokens), output, operator_stack)

\* infix_to_prefix
InfixToPrefix(expression) ==
    LET validation == ValidateInfix(expression)
    IN IF ~validation.is_valid
       THEN ValidationFailed("INFIX", "PREFIX", expression, validation)
       ELSE LET tokens == TokenizeInfix(expression)
                reversed_tokens == Reverse(tokens)
                swapped_tokens == SwapParentheses(reversed_tokens)
                l == InfixToPrefixLoop(swapped_tokens, <<>>, <<>>)
                output == PopRemaining(l.output, l.operator_stack)
                result == JoinWords(Reverse(output))
            IN ConversionResult(TRUE, "INFIX", "PREFIX", expression, result,
                   << [text |-> "Input tokens", tokens |-> tokens],
                      [text |-> "Reversed", tokens |-> reversed_tokens],
                      [text |-> "Swapped parentheses", tokens |-> swapped_tokens],
                      [text |-> "After Shunting-yard", output |-> output],
                      [text |-> "Final result (reversed)", result |-> result] >>,
                   NoError)

\* f"({operand1}{token}{operand2})"
Parenthesised(operand1, token, operand2) ==
    <<"(">> \o operand1 \o token \o operand2 \o <<")">>

NotEnoughForOperator == [text |-> "Not enough operands for operator"]
NotOneElement == [text |-> "Invalid expression - stack should have exactly one element"]

\* A token loop that takes the value popped first as the left operand.
RECURSIVE PostfixToInfixLoopPopOrder(_, _, _)
PostfixToInfixLoopPopOrder(tokens, stack, steps) ==
    IF tokens = <<>> THEN [failed |-> FALSE, stack |-> stack, steps |-> steps]
    ELSE LET token == Head(tokens)
         IN IF IsOperand(token)
            THEN LET pushed == Append(stack, token)
                 IN PostfixToInfixLoopPopOrder(Tail(tokens), pushed,
                        Append(steps, [text |-> "Push operand", token |-> token,
                                       stack |-> pushed]))
            ELSE IF IsOperator(token)
            THEN IF Len(stack) < 2
                 THEN [failed |-> TRUE, stack |-> stack, steps |-> steps]
                 ELSE LET operand1 == stack[Len(stack)]
                          operand2 == stack[Len(stack) - 1]
                          result_expr == Parenthesised(operand1, token, operand2)
                          pushed == Append(SubSeq(stack, 1, Len(stack) - 2), result_expr)
                      IN PostfixToInfixLoopPopOrder(Tail(tokens), pushed,
                             Append(steps, [text |-> "Apply", token |-> token,
                                            operand1 |-> operand1, operand2 |-> operand2,
                                            result_expr |-> result_expr, stack |-> pushed]))
            ELSE PostfixToInfixLoopPopOrder(Tail(tokens), stack, steps)

\* The token loop of postfix_to_infix: the value stack and the steps after the
\* loop; failed when an operator found fewer than two values.
RECURSIVE PostfixToInfixLoop(_, _, _)
PostfixToInfixLoop(tokens, stack, steps) ==
    IF tokens = <<>> THEN [failed |-> FALSE, stack |-> stack, steps |-> steps]
    ELSE LET token == Head(tokens)
         IN IF IsOperand(token)
            THEN LET pushed == Append(stack, token)
                 IN PostfixToInfixLoop(Tail(tokens), pushed,
                        Append(steps, [text |-> "Push operand", token |-> token,
                                       stack |-> pushed]))
            ELSE IF IsOperator(token)
            THEN IF Len(stack) < 2
                 THEN [failed |-> TRUE, stack |-> stack, steps |-> steps]
                 ELSE LET operand2 == stack[Len(stack)]
                          operand1 == stack[Len(stack) - 1]
                          result_expr == Parenthesised(operand1, token, operand2)
                          pushed == Append(SubSeq(stack, 1, Len(stack) - 2), result_expr)
                      IN PostfixToInfixLoop(Tail(tokens), pushed,
                             Append(steps, [text |-> "Apply", token |-> token,
                                            operand1 |-> operand1, operand2 |-> operand2,
                                            result_expr |-> result_expr, stack |-> pushed]))
            ELSE PostfixToInfixLoop(Tail(tokens), stack, steps)

\* The end of postfix_to_infix and of prefix_to_infix, after the token loop.
ToInfixResult(source_notation, expression, l) ==
    IF l.failed
    THEN ConversionResult(FALSE, source_notation, "INFIX", expression, <<>>, l.steps,
                          NotEnoughForOperator)
    ELSE IF Len(l.stack) # 1
    THEN ConversionResult(FALSE, source_notation, "INFIX", expression, <<>>, l.steps,
                          NotOneElement)
    ELSE ConversionResult(TRUE, source_notation, "INFIX", expression, l.stack[1],
                          Append(l.steps, [text |-> "Final result", result |-> l.stack[1]]),
                          NoError)

\* A postfix_to_infix that runs its token loop without asking the validator.
PostfixToInfixUnvalidated(expression) ==
    LET tokens == TokenizePostfix(expression)
    IN ToInfixResult("POSTFIX", expression,
           PostfixToInfixLoop(tokens, <<>>,
               << [text |-> "Input tokens", tokens |-> tokens] >>))

\* postfix_to_infix
PostfixToInfix(expression) ==
    LET validation == ValidatePostfix(expression)
    IN IF ~validation.is_valid
       THEN ValidationFailed("POSTFIX", "INFIX", expression, validation)
       ELSE LET tokens == TokenizePostfix(expression)
            IN ToInfixResult("POSTFIX", expression,
                   PostfixToInfixLoop(tokens, <<>>,
                       << [text |-> "Input tokens", tokens |-> tokens] >>))

\* The token loop of prefix_to_infix, over the reversed tokens: the value
\* popped first is the left operand.
RECURSIVE PrefixToInfixLoop(_, _, _)
PrefixToInfixLoop(tokens, stack, steps) ==
    IF tokens = <<>> THEN [failed |-> FALSE, stack |-> stack, steps |-> steps]
    ELSE LET token == Head(tokens)
         IN IF IsOperand(token)
            THEN LET pushed == Append(stack, token)
                 IN PrefixToInfixLoop(Tail(tokens), pushed,
                        Append(steps, [text |-> "Push operand", token |-> token,
                                       stack |-> pushed]))
            ELSE IF IsOperator(token)
            THEN IF Len(stack) < 2
                 THEN [failed |-> TRUE, stack |-> stack, steps |-> steps]
                 ELSE LET operand1 == stack[Len(stack)]
                          operand2 == stack[Len(stack) - 1]
                          result_expr == Parenthesised(operand1, token, operand2)
                          pushed == Append(SubSeq(stack, 1, Len(stack) - 2), result_expr)
                      IN PrefixToInfixLoop(Tail(tokens), pushed,
                             Append(steps, [text |-> "Apply", token |-> token,
                                            operand1 |-> operand1, operand2 |-> operand2,
                                            result_expr |-> result_expr, stack |-> pushed]))
            ELSE PrefixToInfixLoop(Tail(tokens), stack, steps)

\* A prefix_to_infix that reads the tokens from left to right.
PrefixToInfixLeftToRight(expression) ==
    LET validation == ValidatePrefix(expression)
    IN IF ~validation.is_valid
       THEN ValidationFailed("PREFIX", "INFIX", expression, validation)
       ELSE LET tokens == TokenizePrefix(expression)
            IN ToInfixResult("PREFIX", expression,
                   PrefixToInfixLoop(tokens, <<>>,
                       << [text |-> "Input tokens (reversed)", tokens |-> tokens] >>))

\* prefix_to_infix
PrefixToInfix(expression) ==
    LET validation == ValidatePrefix(expression)
    IN IF ~validation.is_valid
       THEN ValidationFailed("PREFIX", "INFIX", expression, validation)
       ELSE LET tokens == Reverse(TokenizePrefix(expression))
            IN ToInfixResult("PREFIX", expression,
                   PrefixToInfixLoop(tokens, <<>>,
                       << [text |-> "Input tokens (reversed)", tokens |-> tokens] >>))

\* A postfix_to_prefix that reports a failed first leg in its own words.
PostfixToPrefixOwnMessage(expression) ==
    Only({ IF ~infix_result.success
           THEN ConversionResult(FALSE, "POSTFIX", "PREFIX", expression, <<>>,
                                 infix_result.steps,
                                 [text |-> "Conversion to infix failed"])
           ELSE InfixToPrefix(infix_result.result_expression) :
           infix_result \in {PostfixToInfix(expression)} })

\* postfix_to_prefix: through infix.
PostfixToPrefix(expression) ==
    LET infix_result == PostfixToInfix(expression)
    IN IF ~infix_result.success
       THEN ConversionResult(FALSE, "POSTFIX", "PREFIX", expression, <<>>,
                             infix_result.steps, infix_result.error_message)
       ELSE LET prefix_result == InfixToPrefix(infix_result.result_expression)
            IN ConversionResult(prefix_result.success, "POSTFIX", "PREFIX", expression,
                   prefix_result.result_expression,
                   infix_result.steps
                       \o << [text |-> "--- Converting Infix to Prefix ---"] >>
                       \o prefix_result.steps,
                   prefix_result.error_message)

\* A prefix_to_postfix that closes the steps of a failed first leg with a note.
PrefixToPostfixWithNote(expression) ==
    LET infix_result == PrefixToInfix(expression)
    IN IF ~infix_result.success
       THEN ConversionResult(FALSE, "PREFIX", "POSTFIX", expression, <<>>,
                             Append(infix_result.steps,
                                    [text |-> "Infix to Postfix was not attempted"]),
                             infix_result.error_message)
       ELSE LET postfix_result == InfixToPostfix(infix_result.result_expression)
            IN ConversionResult(postfix_result.success, "PREFIX", "POSTFIX", expression,
                   postfix_result.result_expression,
                   infix_result.steps
                       \o << [text |-> "--- Converting Infix to Postfix ---"] >>
                       \o postfix_result.steps,
                   postfix_result.error_message)

\* prefix_to_postfix: through infix.
PrefixToPostfix(expression) ==
    LET infix_result == PrefixToInfix(expression)
    IN IF ~infix_result.success
       THEN ConversionResult(FALSE, "PREFIX", "POSTFIX", expression, <<>>,
                             infix_result.steps, infix_result.error_message)
       ELSE LET postfix_result == InfixToPostfix(infix_result.result_expression)
            IN ConversionResult(postfix_result.success, "PREFIX", "POSTFIX", expression,
                   postfix_result.result_expression,
                   infix_result.steps
                       \o << [text |-> "--- Converting Infix to Postfix ---"] >>
                       \o postfix_result.steps,
                   postfix_result.error_message)

\* NotationType
Notations == {"INFIX", "POSTFIX", "PREFIX"}

\* A convert that validates the expression before it compares the notations.
ConvertValidatingFirst(expression, source, target) ==
    IF ~ExpressionValidatorValidate(NewExpressionValidator, expression, source).result.is_valid
    THEN ConversionResult(FALSE, source, target, expression, <<>>, <<>>,
                          [text |-> "Invalid conversion requested"])
    ELSE IF source = target
    THEN ConversionResult(TRUE, source, target, expression, expression,
                          << [text |-> "No conversion needed - same notation"] >>, NoError)
    ELSE IF source = "INFIX" /\ target = "POSTFIX" THEN InfixToPostfix(expression)
    ELSE IF source = "INFIX" /\ target = "PREFIX" THEN InfixToPrefix(expression)
    ELSE IF source = "POSTFIX" /\ target = "INFIX" THEN PostfixToInfix(expression)
    ELSE IF source = "POSTFIX" /\ target = "PREFIX" THEN PostfixToPrefix(expression)
    ELSE IF source = "PREFIX" /\ target = "INFIX" THEN PrefixToInfix(expression)
    ELSE PrefixToPostfix(expression)

\* convert
Convert(expression, source, target) ==
    IF source = target
    THEN ConversionResult(TRUE, source, target, expression, expression,
                          << [text |-> "No conversion needed - same notation"] >>, NoError)
    ELSE IF source = "INFIX" /\ target = "POSTFIX" THEN InfixToPostfix(expression)
    ELSE IF source = "INFIX" /\ target = "PREFIX" THEN InfixToPrefix(expression)
    ELSE IF source = "POSTFIX" /\ target = "INFIX" THEN PostfixToInfix(expression)
    ELSE IF source = "POSTFIX" /\ target = "PREFIX" THEN PostfixToPrefix(expression)
    ELSE IF source = "PREFIX" /\ target = "INFIX" THEN PrefixToInfix(expression)
    ELSE IF source = "PREFIX" /\ target = "POSTFIX" THEN PrefixToPostfix(expression)
    ELSE ConversionResult(FALSE, source, target, expression, <<>>, <<>>,
                          [text |-> "Invalid conversion requested"])

(***************************************************************************)
(* SoalDua/game_controller.py: GameController, the timing layer around the *)
(* matcher.  Time is counted in half seconds, the coarsest unit in which   *)
(* every duration the controller compares is a whole number; time.time()   *)
(* is passed to each method as current_time, one reading per call.         *)
(***************************************************************************)
TIMEOUT == 2          \* 1.0 s
CHARGE_MIN == 4       \* 2.0 s
CHARGE_MAX == 6       \* 3.0 s
FREEZE_DURATION == 2  \* 1.0 s

\* combo_definitions.py: a short list in the format of COMBO_DEFINITIONS, every
\* pattern a run of direction keys closed by SPACE.
GameCombos ==
    << <<<<"RIGHT", "SPACE">>, "Hadoken">>,
       <<<<"UP", "RIGHT", "SPACE">>, "Shoryuken">> >>

\* The keys of KEY_MAP that the patterns above use.
GameKeys == {"RIGHT", "UP", "SPACE"}

NewGameController ==
    [ state_machine     |-> BuildFromCombos(NewComboStateMachine, GameCombos),
      last_input_time   |-> 0,
      space_press_time  |-> 0,
      is_space_held     |-> FALSE,
      pending_combo     |-> None,
      is_frozen         |-> FALSE,
      freeze_start_time |-> 0,
      frozen_state_id   |-> 0,
      frozen_history    |-> <<>>,
      display_history   |-> <<>> ]

\* The value a controller method hands back: the controller after the call,
\* the value returned and the callbacks fired, in order.  on_state_change
\* and on_charge_update are left unset by the window, so they fire nothing.
Outcome(c, ret, callbacks) == [gc |-> c, ret |-> ret, callbacks |-> callbacks]

Fired(name) == [name |-> name]

ComboDetected(combo_name, is_charged) ==
    [name |-> "on_combo_detected", combo_name |-> combo_name, is_charged |-> is_charged]

\* f"SUPER {result}"
SuperName(result) ==
    IF result = "Hadoken" THEN "SUPER Hadoken" ELSE "SUPER Shoryuken"

IsSpaceAvailable(c) ==
    IF c.is_frozen THEN FALSE
    ELSE HasTransition(c.state_machine.nodes[c.state_machine.current_state], "SPACE")

StartFreeze(c, current_time) ==
    [c EXCEPT !.is_frozen = TRUE,
              !.freeze_start_time = current_time,
              !.frozen_state_id = GetCurrentStateId(c.state_machine),
              !.frozen_history = c.display_history]

EndFreeze(c) ==
    Outcome([c EXCEPT !.is_frozen = FALSE,
                      !.state_machine = Reset(c.state_machine),
                      !.display_history = <<>>,
                      !.last_input_time = 0],
            None, <<Fired("on_freeze_end")>>)

ResetWithCallback(c) ==
    IF c.is_frozen THEN Outcome(c, None, <<>>)
    ELSE Outcome([c EXCEPT !.state_machine = Reset(c.state_machine),
                           !.display_history = <<>>,
                           !.last_input_time = 0],
                 None, <<Fired("on_timeout")>>)

CheckTimeout(c, current_time) ==
    IF c.is_frozen THEN Outcome(c, FALSE, <<>>)
    ELSE IF c.is_space_held THEN Outcome(c, FALSE, <<>>)
    ELSE IF c.last_input_time = 0 THEN Outcome(c, FALSE, <<>>)
    ELSE IF current_time - c.last_input_time > TIMEOUT
         THEN Only({ Outcome(r.gc, TRUE, r.callbacks) : r \in {ResetWithCallback(c)} })
         ELSE Outcome(c, FALSE, <<>>)

\* _check_freeze_timeout ending the freeze only after FREEZE_DURATION has passed.
CheckFreezeTimeoutStrictlyAfter(c, current_time) ==
    IF c.is_frozen /\ current_time - c.freeze_start_time > FREEZE_DURATION
    THEN EndFreeze(c)
    ELSE Outcome(c, None, <<>>)

CheckFreezeTimeout(c, current_time) ==
    IF c.is_frozen /\ current_time - c.freeze_start_time >= FREEZE_DURATION
    THEN EndFreeze(c)
    ELSE Outcome(c, None, <<>>)

\* _check_space_overhold leaving is_space_held set.
CheckSpaceOverholdStillHeld(c, current_time) ==
    IF c.is_space_held /\ current_time - c.space_press_time > CHARGE_MAX
    THEN Only({ Outcome(r.gc, TRUE, r.callbacks \o <<Fired("on_combo_cancelled")>>) :
                r \in {ResetWithCallback(c)} })
    ELSE Outcome(c, FALSE, <<>>)

CheckSpaceOverhold(c, current_time) ==
    IF c.is_space_held /\ current_time - c.space_press_time > CHARGE_MAX
    THEN Only({ Outcome(r.gc, TRUE, r.callbacks \o <<Fired("on_combo_cancelled")>>) :
                r \in {ResetWithCallback([c EXCEPT !.is_space_held = FALSE])} })
    ELSE Outcome(c, FALSE, <<>>)

\* process_key_down's branch for a direction key with its timeout test skipped
\* while SPACE is held.
KeyDownDirectionHoldStopsTimer(c, key, current_time) ==
    Only({ Only({ Only({ IF r.ret # None
                         THEN Outcome(StartFreeze(fed, current_time), r.ret,
                                      t.callbacks \o <<Fired("on_input_received"), ComboDetected(r.ret, FALSE)>>)
                         ELSE Outcome(fed, None, t.callbacks \o <<Fired("on_input_received")>>) :
                         fed \in {[t.gc EXCEPT !.state_machine = r.sm,
                                               !.last_input_time = current_time,
                                               !.display_history = Append(t.gc.display_history, key)]} }) :
                  r \in {ProcessInput(t.gc.state_machine, key)} }) :
           t \in {IF ~c.is_space_held /\ c.last_input_time > 0 /\ current_time - c.last_input_time > TIMEOUT
                  THEN ResetWithCallback(c) ELSE Outcome(c, None, <<>>)} })

\* The branch of process_key_down for a key other than SPACE.
KeyDownDirection(c, key, current_time) ==
    Only({ Only({ Only({ IF r.ret # None
                         THEN Outcome(StartFreeze(fed, current_time), r.ret,
                                      t.callbacks \o <<Fired("on_input_received"), ComboDetected(r.ret, FALSE)>>)
                         ELSE Outcome(fed, None, t.callbacks \o <<Fired("on_input_received")>>) :
                         fed \in {[t.gc EXCEPT !.state_machine = r.sm,
                                               !.last_input_time = current_time,
                                               !.display_history = Append(t.gc.display_history, key)]} }) :
                  r \in {ProcessInput(t.gc.state_machine, key)} }) :
           t \in {IF c.last_input_time > 0 /\ current_time - c.last_input_time > TIMEOUT
                  THEN ResetWithCallback(c) ELSE Outcome(c, None, <<>>)} })

ProcessKeyDown(c, key, current_time) ==
    IF c.is_frozen THEN Outcome(c, None, <<>>)
    ELSE IF key = "SPACE"
         THEN IF ~IsSpaceAvailable(c) THEN Outcome(c, None, <<>>)
              ELSE Outcome([c EXCEPT !.space_press_time = current_time, !.is_space_held = TRUE],
                           None, <<>>)
         ELSE KeyDownDirection(c, key, current_time)

\* The branch of process_key_up that releases a hold of at most CHARGE_MAX.
KeyUpRelease(c, hold_duration, current_time) ==
    Only({ Only({ Only({ IF r.ret # None
                         THEN Outcome(StartFreeze(fed, current_time), combo_name,
                                      <<Fired("on_input_received"), ComboDetected(combo_name, is_charged)>>)
                         ELSE Outcome(fed, None, <<Fired("on_input_received")>>) :
                         combo_name \in {IF r.ret # None /\ is_charged THEN SuperName(r.ret) ELSE r.ret} }) :
                  fed \in {[c EXCEPT !.state_machine = r.sm,
                                     !.last_input_time = current_time,
                                     !.display_history = Append(c.display_history, "SPACE")]},
                  is_charged \in {CHARGE_MIN <= hold_duration /\ hold_duration <= CHARGE_MAX} }) :
           r \in {ProcessInput(c.state_machine, "SPACE")} })

ProcessKeyUp(c, key, current_time) ==
    IF c.is_frozen THEN Outcome([c EXCEPT !.is_space_held = FALSE], None, <<>>)
    ELSE IF key # "SPACE" \/ ~c.is_space_held THEN Outcome(c, None, <<>>)
    ELSE IF current_time - c.space_press_time > CHARGE_MAX
         THEN Only({ Outcome(r.gc, None, r.callbacks \o <<Fired("on_combo_cancelled")>>) :
                     r \in {ResetWithCallback([c EXCEPT !.is_space_held = FALSE])} })
         ELSE KeyUpRelease([c EXCEPT !.is_space_held = FALSE],
                           current_time - c.space_press_time, current_time)

Update(c, current_time) ==
    Only({ Only({ Only({ Outcome(t.gc, None, f.callbacks \o o.callbacks \o t.callbacks) :
                         t \in {IF ~o.gc.is_frozen THEN CheckTimeout(o.gc, current_time)
                                ELSE Outcome(o.gc, FALSE, <<>>)} }) :
                  o \in {CheckSpaceOverhold(f.gc, current_time)} }) :
           f \in {CheckFreezeTimeout(c, current_time)} })

(***************************************************************************)
(* The matcher as a state machine: built once from a combo list, as in     *)
(* GameController.__init__, then driven by process_input and reset.        *)
(***************************************************************************)
trieVars == <<sm, smCalls, smLast>>
stackVars == <<stk, stkCall>>
pdaVars == <<pda, pdaCall>>
infixVars == <<infix, infixCall>>
polishVars == <<polish, polishCall>>
convVars == <<convExpr, convCalls>>
gameVars == <<gc, gcNow, gcCall>>
vars == <<trieVars, stackVars, pdaVars, infixVars, polishVars, convVars, gameVars>>

\* The objects a specification does not drive stay as constructed.
TrieIdle == sm = NewComboStateMachine /\ smCalls = <<>> /\ smLast = "__init__"
StackIdle == stk = NewPDAStack("Z0") /\ stkCall = [op |-> "__init__"]
PDAIdle == pda = NewPushdownAutomata /\ pdaCall = [op |-> "__init__"]
InfixIdle == infix = NewInfixValidator /\ infixCall = [op |-> "__init__"]
PolishIdle == polish = NewExpressionValidator /\ polishCall = [op |-> "__init__"]
ConvIdle == convExpr = <<>> /\ convCalls = <<>>
GameIdle == gc = NewGameController /\ gcNow = 1 /\ gcCall = [op |-> "__init__"]

TrieInit ==
    /\ \E combos \in ComboLists : sm = BuildFromCombos(NewComboStateMachine, combos)
    /\ smCalls = <<>>
    /\ smLast = "build_from_combos"
    /\ StackIdle /\ PDAIdle /\ InfixIdle /\ PolishIdle /\ ConvIdle /\ GameIdle

\* One call of process_input. The call record keeps the cursor the call started
\* from, the cursor and the history it ended with, and the value returned.
DoProcessInput(input_symbol) ==
    /\ Len(smCalls) < MaxFeed
    /\ LET r == ProcessInput(sm, input_symbol)
       IN /\ sm' = r.sm
          /\ smCalls' = Append(smCalls,
                [input_symbol |-> input_symbol, ret |-> r.ret,
                 from |-> sm.current_state, to |-> r.sm.current_state,
                 history |-> r.sm.input_history])
    /\ smLast' = "process_input"
    /\ UNCHANGED <<stackVars, pdaVars, infixVars, polishVars, convVars, gameVars>>

DoReset ==
    /\ sm' = Reset(sm)
    /\ smCalls' = <<>>
    /\ smLast' = "reset"
    /\ UNCHANGED <<stackVars, pdaVars, infixVars, polishVars, convVars, gameVars>>

TrieNext ==
    \/ \E input_symbol \in Symbols : DoProcessInput(input_symbol)
    \/ DoReset

SpecTrie == TrieInit /\ [][TrieNext]_vars

(***************************************************************************)
(* The matcher built once from a list of patterns that share prefixes,     *)
(* then driven by process_input and reset.                                 *)
(***************************************************************************)
OrderCombos ==
    { <<<<"RIGHT">>, "Hadoken">>, <<<<"SPACE">>, "Shoryuken">>,
      <<<<"RIGHT", "SPACE">>, "Hadoken">>, <<<<"RIGHT", "SPACE">>, "Shoryuken">>,
      <<<<"RIGHT", "RIGHT">>, "Shoryuken">>, <<<<"SPACE", "RIGHT">>, "Hadoken">> }

OrderInit ==
    /\ \E combos \in SeqsUpTo(OrderCombos, MaxOrderCombos) :
          sm = BuildFromCombos(NewComboStateMachine, combos)
    /\ smCalls = <<>>
    /\ smLast = "build_from_combos"
    /\ StackIdle /\ PDAIdle /\ InfixIdle /\ PolishIdle /\ ConvIdle /\ GameIdle

SpecOrder == OrderInit /\ [][TrieNext]_vars

(***************************************************************************)
(* The matcher built more than once: build_from_combos is called on a new  *)
(* ComboStateMachine and called again, then process_input drives it.       *)
(***************************************************************************)
RebuildCombos ==
    { <<<<"RIGHT">>, "Hadoken">>, <<<<"RIGHT">>, "Shoryuken">>,
      <<<<"SPACE">>, "Hadoken">>, <<<<"RIGHT", "SPACE">>, "Shoryuken">> }

RebuildInit ==
    /\ sm = NewComboStateMachine
    /\ smCalls = <<>>
    /\ smLast = "__init__"
    /\ StackIdle /\ PDAIdle /\ InfixIdle /\ PolishIdle /\ ConvIdle /\ GameIdle

DoBuildFromCombos(combos) ==
    /\ smLast # "process_input"
    /\ Len(smCalls) < MaxBuilds
    /\ sm' = BuildFromCombos(sm, combos)
    /\ smCalls' = Append(smCalls, [op |-> "build_from_combos", combos |-> combos])
    /\ smLast' = "build_from_combos"
    /\ UNCHANGED <<stackVars, pdaVars, infixVars, polishVars, convVars, gameVars>>

\* The calls of process_input among the calls made so far.
IsProcessInput(call) == call.op = "process_input"

DoProcessInputRebuilt(input_symbol) ==
    /\ Len(SelectSeq(smCalls, IsProcessInput)) < MaxRebuildFeed
    /\ \E r \in {ProcessInput(sm, input_symbol)} :
          /\ sm' = r.sm
          /\ smCalls' = Append(smCalls,
                [op |-> "process_input", input_symbol |-> input_symbol, ret |-> r.ret])
    /\ smLast' = "process_input"
    /\ UNCHANGED <<stackVars, pdaVars, infixVars, polishVars, convVars, gameVars>>

RebuildNext ==
    \/ \E combos \in SeqsUpTo(RebuildCombos, MaxRebuildCombos) : DoBuildFromCombos(combos)
    \/ \E input_symbol \in Symbols : DoProcessInputRebuilt(input_symbol)

SpecRebuild == RebuildInit /\ [][RebuildNext]_vars

(***************************************************************************)
(* A PDAStack driven on its own by push, pop, peek and clear.              *)
(***************************************************************************)
InitialSymbols == {"Z0", "$"}
StackSymbols == {"X", "Z0"}

StackInit ==
    /\ \E z \in InitialSymbols : stk = NewPDAStack(z)
    /\ stkCall = [op |-> "__init__"]
    /\ TrieIdle /\ PDAIdle /\ InfixIdle /\ PolishIdle /\ ConvIdle /\ GameIdle

DoPush(symbol) ==
    /\ Len(stk._history) < MaxStackOps
    /\ stk' = StackPush(stk, symbol)
    /\ stkCall' = [op |-> "push", pre |-> stk, ret |-> None]
    /\ UNCHANGED <<trieVars, pdaVars, infixVars, polishVars, convVars, gameVars>>

DoPop ==
    /\ stk' = StackPop(stk).stack
    /\ stkCall' = [op |-> "pop", pre |-> stk, ret |-> StackPop(stk).ret]
    /\ UNCHANGED <<trieVars, pdaVars, infixVars, polishVars, convVars, gameVars>>

DoPeek ==
    /\ stk' = stk
    /\ stkCall' = [op |-> "peek", pre |-> stk, ret |-> StackPeek(stk)]
    /\ UNCHANGED <<trieVars, pdaVars, infixVars, polishVars, convVars, gameVars>>

DoClear ==
    /\ stk' = StackClear(stk)
    /\ stkCall' = [op |-> "clear", pre |-> stk, ret |-> None]
    /\ UNCHANGED <<trieVars, pdaVars, infixVars, polishVars, convVars, gameVars>>

StackNext ==
    \/ \E symbol \in StackSymbols : DoPush(symbol)
    \/ DoPop
    \/ DoPeek
    \/ DoClear

SpecStack == StackInit /\ [][StackNext]_vars

(***************************************************************************)
(* A PushdownAutomata configured with the states q0 (INITIAL), q1          *)
(* (ACCEPTING) and, or not, q_error (ERROR), and a table of transitions    *)
(* drawn from a pool that holds every guard shape (input symbol or None,   *)
(* stack top or None) and every stack action; then driven by step, process *)
(* and reset.                                                              *)
(***************************************************************************)
InputSymbols == {"a", "b"}

TransitionPool ==
    { PDATransition("q0", "q1", "a", None, ActPush("X")),
      PDATransition("q0", "q0", None, None, ActNone),
      PDATransition("q0", "q0", "a", "Z0", ActPop),
      PDATransition("q0", "q1", "b", None, ActReplace("X")),
      PDATransition("q0", "q0", "b", "Z0", ActPush("Y")),
      PDATransition("q1", "q0", "a", "X", ActPop),
      PDATransition("q1", "q1", None, None, ActReplace("Y")),
      PDATransition("q1", "q1", "b", None, ActPop) }

\* Tables: lists of distinct transitions of the pool.
Tables ==
    {t \in SeqsUpTo(TransitionPool, MaxTrans) :
        \A i, j \in 1..Len(t) : i # j => t[i] # t[j]}

ConfiguredPDA(table, with_error) ==
    LET p1 == AddState(AddState(NewPushdownAutomata, "q0", "INITIAL"), "q1", "ACCEPTING")
        p2 == IF with_error THEN AddState(p1, "q_error", "ERROR") ELSE p1
    IN AddPDATransitions(p2, table)

PDAInit ==
    /\ \E table \in Tables : \E with_error \in BOOLEAN :
          pda = ConfiguredPDA(table, with_error)
    /\ pdaCall = [op |-> "__init__"]
    /\ TrieIdle /\ StackIdle /\ InfixIdle /\ PolishIdle /\ ConvIdle /\ GameIdle

DoStep(input_symbol) ==
    /\ Len(pda._execution_history) < MaxSteps
    /\ \E r \in {Step(pda, input_symbol)} :
          /\ pda' = r.pda
          /\ pdaCall' = [op |-> "step", input_symbol |-> input_symbol, pre |-> pda,
                         ok |-> r.ok, error |-> r.error]
    /\ UNCHANGED <<trieVars, stackVars, infixVars, polishVars, convVars, gameVars>>

DoProcess(input_string) ==
    /\ \E r \in {Process(pda, input_string)} :
          /\ pda' = r.pda
          /\ pdaCall' = [op |-> "process", input_string |-> input_string,
                         pre_state |-> pda.current_state,
                         pre_stack |-> StackGetContents(pda.stack),
                         accepted |-> r.accepted, message |-> r.message]
    /\ UNCHANGED <<trieVars, stackVars, infixVars, polishVars, convVars, gameVars>>

DoPDAReset ==
    /\ pda' = PDAReset(pda)
    /\ pdaCall' = [op |-> "reset"]
    /\ UNCHANGED <<trieVars, stackVars, infixVars, polishVars, convVars, gameVars>>

PDANext ==
    \/ \E input_symbol \in InputSymbols : DoStep(input_symbol)
    \/ \E input_string \in SeqsUpTo(InputSymbols, MaxInput) : DoProcess(input_string)
    \/ DoPDAReset

SpecPDA == PDAInit /\ [][PDANext]_vars

(***************************************************************************)
(* The PDA of a validator, as _build_pda leaves it, driven on its own by   *)
(* step, process and reset with the token types classify_token returns.    *)
(***************************************************************************)
TokenTypes == {"OPERAND", "OPERATOR", "LPAREN", "RPAREN"}

ValidatorPDAs == {NewInfixValidator.pda, NewPostfixValidator.pda, NewPrefixValidator.pda}

ValidatorPDAInit ==
    /\ \E p \in ValidatorPDAs : pda = p
    /\ pdaCall = [op |-> "__init__"]
    /\ TrieIdle /\ StackIdle /\ InfixIdle /\ PolishIdle /\ ConvIdle /\ GameIdle

DoValidatorStep(input_symbol) ==
    /\ Len(pda._execution_history) < MaxValidatorSteps
    /\ \E r \in {Step(pda, input_symbol)} :
          /\ pda' = r.pda
          /\ pdaCall' = [op |-> "step", input_symbol |-> input_symbol, pre |-> pda,
                         ok |-> r.ok, error |-> r.error]
    /\ UNCHANGED <<trieVars, stackVars, infixVars, polishVars, convVars, gameVars>>

ValidatorPDANext ==
    \/ \E input_symbol \in TokenTypes : DoValidatorStep(input_symbol)
    \/ \E input_string \in SeqsUpTo(TokenTypes, MaxValidatorInput) : DoProcess(input_string)
    \/ DoPDAReset

SpecValidatorPDA == ValidatorPDAInit /\ [][ValidatorPDANext]_vars

(***************************************************************************)
(* An InfixValidator handed one expression: validate is called on it, and  *)
(* may be called on it again.                                              *)
(***************************************************************************)
InfixChars == {"3", "+", "(", ")", " ", "x"}

InfixInit ==
    /\ infix = NewInfixValidator
    /\ \E expression \in SeqsUpTo(InfixChars, MaxExprLen) :
          infixCall = [op |-> "__init__", expression |-> expression]
    /\ TrieIdle /\ StackIdle /\ PDAIdle /\ PolishIdle /\ ConvIdle /\ GameIdle

DoInfixValidate ==
    /\ \E r \in {InfixValidate(infix, infixCall.expression)} :
          /\ infix' = r.validator
          /\ infixCall' = [op |-> "validate", expression |-> infixCall.expression,
                           result |-> r.result]
    /\ UNCHANGED <<trieVars, stackVars, pdaVars, polishVars, convVars, gameVars>>

InfixNext == DoInfixValidate

SpecInfix == InfixInit /\ [][InfixNext]_vars

(***************************************************************************)
(* An ExpressionValidator handed one space-separated expression: it is     *)
(* validated as postfix and as prefix, and the expression with its words   *)
(* in reverse order is validated as postfix too.                           *)
(***************************************************************************)
PolishWords == {<<"3">>, <<"1", "2">>, <<"+">>, <<"*">>, <<"x">>}

\* The expression with its words in reverse order.
ReversedWords(expression) == JoinWords(Reverse(Split(expression)))

PolishInit ==
    /\ polish = NewExpressionValidator
    /\ \E words \in SeqsUpTo(PolishWords, MaxWords) :
          polishCall = [expression |-> JoinWords(words),
                        postfix |-> [op |-> "__init__"],
                        prefix |-> [op |-> "__init__"]]
    /\ TrieIdle /\ StackIdle /\ PDAIdle /\ InfixIdle /\ ConvIdle /\ GameIdle

DoValidatePostfix(expression) ==
    /\ \E r \in {ExpressionValidatorValidate(polish, expression, "POSTFIX")} :
          /\ polish' = r.validator
          /\ polishCall' = [polishCall EXCEPT !.postfix =
                               [op |-> "validate", expression |-> expression,
                                result |-> r.result]]
    /\ UNCHANGED <<trieVars, stackVars, pdaVars, infixVars, convVars, gameVars>>

DoValidatePrefix(expression) ==
    /\ \E r \in {ExpressionValidatorValidate(polish, expression, "PREFIX")} :
          /\ polish' = r.validator
          /\ polishCall' = [polishCall EXCEPT !.prefix =
                               [op |-> "validate", expression |-> expression,
                                result |-> r.result]]
    /\ UNCHANGED <<trieVars, stackVars, pdaVars, infixVars, convVars, gameVars>>

PolishNext ==
    \/ \E expression \in {polishCall.expression, ReversedWords(polishCall.expression)} :
          DoValidatePostfix(expression)
    \/ DoValidatePrefix(polishCall.expression)

SpecPolish == PolishInit /\ [][PolishNext]_vars

(***************************************************************************)
(* An ExpressionConverter handed one expression: a well-formed infix       *)
(* expression, a short free-form string or a space-separated word list.    *)
(* The expression is converted, and the result of a successful conversion  *)
(* is converted in turn.                                                   *)
(***************************************************************************)
ConvDigits == {"1", "2"}
ConvOperators == {"-", "*"}
ConvChars == {"1", "2", "-", "(", ")", "x"}
ConvWords == {<<"1">>, <<"2">>, <<"-">>, <<"*">>}

\* The infix expressions E ::= digit | '(' E ')' | E operator E with n
\* operators and p pairs of parentheses.
RECURSIVE InfixWith(_, _)
InfixWith(n, p) ==
    (IF n = 0 /\ p = 0 THEN {<<d>> : d \in ConvDigits} ELSE {})
    \cup (IF p >= 1 THEN {<<"(">> \o e \o <<")">> : e \in InfixWith(n, p - 1)} ELSE {})
    \cup UNION { {a \o <<o>> \o b :
                     a \in InfixWith(i, j), b \in InfixWith(n - 1 - i, p - j),
                     o \in ConvOperators} :
                 i \in 0..(n - 1), j \in 0..p }

\* Expressions whose words are set apart by more than one space, or that hold
\* a digit outside DIGITS.
ConvUnusual ==
    { <<" ", "1">>, <<"1", " ", " ", "2", " ", "-">>, <<"-", " ", " ", "1", " ", "2">>,
      <<"U+0663">>, <<"U+0663", " ", "2", " ", "-">>, <<"-", " ", "U+0663", " ", "2">>,
      <<"U+0663", "-", "2">> }

ConvExpressions ==
    UNION {InfixWith(n, p) : n \in 0..MaxOperators, p \in 0..MaxParens}
    \cup SeqsUpTo(ConvChars, MaxShortLen)
    \cup {JoinWords(words) : words \in SeqsUpTo(ConvWords, MaxConvWords)}
    \cup ConvUnusual

ConvInit ==
    /\ convExpr \in ConvExpressions
    /\ convCalls = <<>>
    /\ TrieIdle /\ StackIdle /\ PDAIdle /\ InfixIdle /\ PolishIdle /\ GameIdle

\* A conversion is called on the expression at hand or, next in a chain, on the
\* result of the conversion before it, which is in that conversion's target
\* notation.
CanConvert(source) ==
    IF convCalls = <<>> THEN TRUE
    ELSE /\ Len(convCalls) < MaxConvCalls
         /\ Last(convCalls).op # "convert"
         /\ Last(convCalls).result.success
         /\ Last(convCalls).result.target_notation = source

ConvArgument ==
    IF convCalls = <<>> THEN convExpr ELSE Last(convCalls).result.result_expression

Called(op, expression, result) ==
    /\ convCalls' = Append(convCalls,
                           [op |-> op, expression |-> expression, result |-> result])
    /\ UNCHANGED <<convExpr, trieVars, stackVars, pdaVars, infixVars, polishVars, gameVars>>

DoInfixToPostfix ==
    CanConvert("INFIX") /\ Called("infix_to_postfix", ConvArgument, InfixToPostfix(ConvArgument))

DoInfixToPrefix ==
    CanConvert("INFIX") /\ Called("infix_to_prefix", ConvArgument, InfixToPrefix(ConvArgument))

DoPostfixToInfix ==
    CanConvert("POSTFIX") /\ Called("postfix_to_infix", ConvArgument, PostfixToInfix(ConvArgument))

DoPrefixToInfix ==
    CanConvert("PREFIX") /\ Called("prefix_to_infix", ConvArgument, PrefixToInfix(ConvArgument))

DoPostfixToPrefix ==
    CanConvert("POSTFIX") /\ Called("postfix_to_prefix", ConvArgument, PostfixToPrefix(ConvArgument))

DoPrefixToPostfix ==
    CanConvert("PREFIX") /\ Called("prefix_to_postfix", ConvArgument, PrefixToPostfix(ConvArgument))

DoConvert(source, target) ==
    /\ convCalls = <<>>
    /\ Called("convert", convExpr, Convert(convExpr, source, target))

ConvNext ==
    \/ DoInfixToPostfix
    \/ DoInfixToPrefix
    \/ DoPostfixToInfix
    \/ DoPrefixToInfix
    \/ DoPostfixToPrefix
    \/ DoPrefixToPostfix
    \/ \E source \in Notations, target \in Notations : DoConvert(source, target)

SpecConvert == ConvInit /\ [][ConvNext]_vars

(***************************************************************************)
(* A GameController driven by the window's loop: key-down and key-up       *)
(* events, update() once a frame, and the clock moving on between calls.   *)
(***************************************************************************)
GameInit ==
    /\ gc = NewGameController
    /\ gcNow = 1
    /\ gcCall = [op |-> "__init__"]
    /\ TrieIdle /\ StackIdle /\ PDAIdle /\ InfixIdle /\ PolishIdle /\ ConvIdle

\* The record of a call: the controller it started from, the clock it read,
\* the value it returned and the callbacks it fired.
GameCall(op, key, r) ==
    [op |-> op, key |-> key, at |-> gcNow, before |-> gc, ret |-> r.ret, callbacks |-> r.callbacks]

DoKeyDown(key) ==
    /\ key = "SPACE" \/ Len(gc.display_history) < MaxHistory
    /\ \E r \in {ProcessKeyDown(gc, key, gcNow)} :
          /\ gc' = r.gc
          /\ gcCall' = GameCall("process_key_down", key, r)
    /\ UNCHANGED <<gcNow, trieVars, stackVars, pdaVars, infixVars, polishVars, convVars>>

DoKeyUp(key) ==
    /\ \E r \in {ProcessKeyUp(gc, key, gcNow)} :
          /\ gc' = r.gc
          /\ gcCall' = GameCall("process_key_up", key, r)
    /\ UNCHANGED <<gcNow, trieVars, stackVars, pdaVars, infixVars, polishVars, convVars>>

DoUpdate ==
    /\ \E r \in {Update(gc, gcNow)} :
          /\ gc' = r.gc
          /\ gcCall' = GameCall("update", None, r)
    /\ UNCHANGED <<gcNow, trieVars, stackVars, pdaVars, infixVars, polishVars, convVars>>

\* Half a second passes with no call.
Tick ==
    /\ gcNow < MaxTime
    /\ gcNow' = gcNow + 1
    /\ UNCHANGED <<gc, gcCall, trieVars, stackVars, pdaVars, infixVars, polishVars, convVars>>

GameNext ==
    \/ \E key \in GameKeys : DoKeyDown(key)
    \/ \E key \in GameKeys : DoKeyUp(key)
    \/ DoUpdate
    \/ Tick

SpecGame == GameInit /\ [][GameNext]_vars

(***************************************************************************)
(* Claims about the trie matcher.                                          *)
(***************************************************************************)
NoDuplicateSequences(combos) ==
    \A i, j \in 1..Len(combos) : i # j => combos[i][1] # combos[j][1]

IsPrefix(p, q) == Len(p) <= Len(q) /\ \A i \in 1..Len(p) : p[i] = q[i]

\* Calls k+1..k+j started with the cursor at the root and spell sequence[1..j].
FedFromRoot(k, j, sequence) ==
    /\ k + j <= Len(smCalls)
    /\ smCalls[k + 1].from = sm.root
    /\ \A i \in 1..j : smCalls[k + i].input_symbol = sequence[i]

\* Feeding combo c from the root gives None before its last symbol and its name on it.
FeedsAsRegistered(c) ==
    \A k \in 0..Len(smCalls) : \A j \in 1..Len(c[1]) :
        FedFromRoot(k, j, c[1]) =>
            smCalls[k + j].ret = (IF j = Len(c[1]) THEN c[2] ELSE None)

\* Another registered, non-empty sequence is a strict prefix of combo c's.
HasRegisteredStrictPrefix(c) ==
    \E i \in 1..Len(sm.combo_list) :
        LET p == sm.combo_list[i][1]
        IN p # <<>> /\ Len(p) < Len(c[1]) /\ IsPrefix(p, c[1])

\* C1 as stated: for every combo list without two identical sequences, feeding
\* any registered sequence from the root returns None for every symbol before
\* the last and the pattern's label on the last.
C1_AsStated ==
    NoDuplicateSequences(sm.combo_list) =>
        \A n \in 1..Len(sm.combo_list) : FeedsAsRegistered(sm.combo_list[n])

\* C1 amended: the same, for every registered sequence of which no other
\* registered non-empty sequence is a strict prefix.
C1_FeedRegisteredSequence ==
    NoDuplicateSequences(sm.combo_list) =>
        \A n \in 1..Len(sm.combo_list) :
            ~HasRegisteredStrictPrefix(sm.combo_list[n]) =>
                FeedsAsRegistered(sm.combo_list[n])

\* A registered two-symbol sequence was fed from the root, next to another
\* registered pattern, and its last call returned its label.
C1_Witness ==
    /\ Len(sm.combo_list) = 2
    /\ NoDuplicateSequences(sm.combo_list)
    /\ \E n \in 1..2 :
          LET c == sm.combo_list[n]
          IN /\ Len(c[1]) = 2
             /\ ~HasRegisteredStrictPrefix(c)
             /\ \E k \in 0..Len(smCalls) : k >= 1 /\ FedFromRoot(k, 2, c[1])
                    /\ smCalls[k + 2].ret = c[2] /\ smCalls[k + 1].ret = None

RootSymbols == {s \in Symbols : HasTransition(sm.nodes[sm.root], s)}

Range(f) == {f[i] : i \in DOMAIN f}

AcceptedOrReset ==
    \/ smLast = "reset"
    \/ smLast = "process_input" /\ smCalls[Len(smCalls)].ret # None

\* C2: after a process_input that returns a label, and after reset(), the cursor
\* is the root, input_history is empty and get_possible_transitions() lists
\* exactly the symbols on the root's outgoing edges.
C2_RootAfterAcceptOrReset ==
    AcceptedOrReset =>
        /\ sm.current_state = sm.root
        /\ sm.input_history = <<>>
        /\ Range(GetPossibleTransitions(sm)) = RootSymbols
        /\ Len(GetPossibleTransitions(sm)) = Cardinality(RootSymbols)

\* The third call returned a label, after two calls that returned none.
C2_Witness ==
    /\ smLast = "process_input"
    /\ Len(smCalls) = 3
    /\ smCalls[3].ret # None
    /\ smCalls[2].ret = None
    /\ smCalls[2].history # <<>>
    /\ RootSymbols # {}

\* What a call that found no edge from the cursor must have done.
NoEdgeOutcome(c) ==
    LET s == c.input_symbol
        root == sm.nodes[sm.root]
    IN IF HasTransition(root, s)
       THEN LET child == sm.nodes[GetNextState(root, s)]
            IN IF child.is_accept
               THEN c.ret = child.combo_name /\ c.to = sm.root /\ c.history = <<>>
               ELSE c.ret = None /\ c.to = child.state_id /\ c.history = <<s>>
       ELSE c.ret = None /\ c.to = sm.root /\ c.history = <<>>

\* C3: when process_input(s) finds no edge labelled s from the cursor, then if
\* the root has an edge labelled s the cursor moves to that root child and
\* input_history becomes [s], the accept check applying to that node; otherwise
\* the cursor returns to the root, input_history is empty and None is returned.
C3_NoEdgeFromCursor ==
    \A i \in 1..Len(smCalls) :
        ~HasTransition(sm.nodes[smCalls[i].from], smCalls[i].input_symbol) =>
            NoEdgeOutcome(smCalls[i])

\* A call made away from the root, after an earlier restart, found no edge from
\* the cursor and restarted from the root's edge on its own symbol.
C3_Witness ==
    /\ Len(smCalls) = 3
    /\ smCalls[2].history = <<smCalls[2].input_symbol>>
    /\ smCalls[3].from # sm.root
    /\ smCalls[3].input_symbol # smCalls[2].input_symbol
    /\ ~HasTransition(sm.nodes[smCalls[3].from], smCalls[3].input_symbol)
    /\ HasTransition(sm.nodes[sm.root], smCalls[3].input_symbol)
    /\ smCalls[3].history = <<smCalls[3].input_symbol>>
    /\ smCalls[3].to # sm.root

(***************************************************************************)
(* Claims about PushdownAutomata.step and process.                         *)
(***************************************************************************)
\* The declared transitions that match the configuration a step started from.
MatchingAtCall ==
    LET pre == pdaCall.pre
    IN {i \in 1..Len(pre.transitions) :
          Matches(pre.transitions[i], pre.current_state, pdaCall.input_symbol,
                  Last(pre.stack._stack))}

ErrorConfigured(p) == "q_error" \in DOMAIN p.states

\* The step took transition t: it either succeeded, moved to t's target and
\* recorded t, or failed on t's stack action.
TookTransition(t) ==
    IF pdaCall.ok
    THEN /\ pda.current_state = t.to_state
         /\ pda._transition_history = Append(pdaCall.pre._transition_history, t)
    ELSE pdaCall.error = StackActionMessage(t.stack_action)

\* C4: when several declared transitions match the current (state, input symbol,
\* stack top), None guards counting as wildcards, step takes the one added
\* earliest, whatever the table and the configuration.
C4_FirstDeclaredMatchWins ==
    (pdaCall.op = "step" /\ MatchingAtCall # {}) =>
        TookTransition(pdaCall.pre.transitions[MinOf(MatchingAtCall)])

\* Two transitions matched, a wildcard declared before a specific one with
\* another target and another stack action; the step succeeded.
C4_Witness ==
    /\ pdaCall.op = "step"
    /\ pdaCall.ok
    /\ MatchingAtCall = {1, 2}
    /\ pdaCall.pre.transitions[1].input_symbol = None
    /\ pdaCall.pre.transitions[2].input_symbol = pdaCall.input_symbol
    /\ pdaCall.pre.transitions[1].to_state # pdaCall.pre.transitions[2].to_state
    /\ pdaCall.pre.transitions[1].stack_action # pdaCall.pre.transitions[2].stack_action

\* The steps process made, as its execution history shows them.
ProcessSteps == Len(pda._execution_history)

\* The execution history holds one configuration per symbol consumed, the first
\* taken from the initial state with only the bottom marker on the stack.
ProcessRanFromReset ==
    /\ ProcessSteps <= Len(pdaCall.input_string)
    /\ \A i \in 1..ProcessSteps :
          pda._execution_history[i].remaining_input = pdaCall.input_string[i]
    /\ ProcessSteps > 0 =>
          /\ pda._execution_history[1].state = pda.initial_state
          /\ pda._execution_history[1].stack_contents = <<"Z0">>
    /\ ProcessSteps = 0 =>
          /\ pda.current_state = pda.initial_state
          /\ pda.stack = NewPDAStack("Z0")

\* Every symbol was stepped and every step succeeded.
ProcessCompleted ==
    /\ ProcessSteps = Len(pdaCall.input_string)
    /\ Len(pda._transition_history) = Len(pdaCall.input_string)

\* The last step made failed: no later symbol was stepped.
ProcessStoppedAtFailure ==
    /\ ProcessSteps >= 1
    /\ Len(pda._transition_history) = ProcessSteps - 1
    /\ pdaCall.message.text \in {"No valid transition for input in state", "Stack action failed"}
    /\ pdaCall.message.text = "No valid transition for input in state" =>
          pdaCall.message.input = pdaCall.input_string[ProcessSteps]

\* C5: process resets, steps every symbol in order, stops at the first failing
\* step with (False, that step's error), and otherwise accepts iff the state
\* after the last symbol has kind ACCEPTING.
C5_ProcessAcceptsOnFinalStateOnly ==
    pdaCall.op = "process" =>
        /\ ProcessRanFromReset
        /\ \/ ProcessCompleted
           \/ ProcessStoppedAtFailure /\ ~pdaCall.accepted
        /\ ProcessCompleted =>
              (pdaCall.accepted <=> pda.states[pda.current_state] = "ACCEPTING")
        /\ pdaCall.accepted => pdaCall.message.text = "Input accepted"

\* process, called on an automaton that had stepped, ran two symbols, passed
\* through the ACCEPTING state after the first and rejected the input.
C5_Witness ==
    /\ pdaCall.op = "process"
    /\ pdaCall.pre_state # pda.initial_state
    /\ pdaCall.pre_stack # <<"Z0">>
    /\ Len(pdaCall.input_string) = 2
    /\ ProcessCompleted
    /\ pda.states[pda._execution_history[2].state] = "ACCEPTING"
    /\ ~pdaCall.accepted
    /\ pda.states[pda.current_state] # "ACCEPTING"

SentinelOnly(st) == st._stack = <<st._initial_symbol>>

\* The step selected a transition with stack action `op` on a sentinel-only stack.
SelectedOnSentinel(op) ==
    /\ pdaCall.op = "step"
    /\ MatchingAtCall # {}
    /\ pdaCall.pre.transitions[MinOf(MatchingAtCall)].stack_action.op = op
    /\ SentinelOnly(pdaCall.pre.stack)

\* C6: a step whose selected transition pops while the stack holds only the
\* sentinel fails, leaves the stack contents unchanged (is_empty() still true),
\* moves to q_error if configured and appends nothing to the transition history.
C6_PopOnSentinelFails ==
    SelectedOnSentinel("pop") =>
        /\ ~pdaCall.ok
        /\ pda.stack._stack = pdaCall.pre.stack._stack
        /\ StackIsEmpty(pda.stack)
        /\ ErrorConfigured(pda) => pda.current_state = "q_error"
        /\ ~ErrorConfigured(pda) => pda.current_state = pdaCall.pre.current_state
        /\ pda._transition_history = pdaCall.pre._transition_history

\* A pop was selected on the sentinel-only stack with q_error configured.
C6_Witness ==
    /\ SelectedOnSentinel("pop")
    /\ ErrorConfigured(pda)
    /\ pdaCall.pre.current_state # "q_error"
    /\ pda.current_state = "q_error"

\* C7 as stated: a step whose selected transition replaces while the stack holds
\* only the sentinel fails, and the stack still holds only the sentinel.
C7_AsStated ==
    SelectedOnSentinel("replace") =>
        /\ ~pdaCall.ok
        /\ SentinelOnly(pda.stack)

\* C8 as stated: when step(sym) finds no matching transition it fails, the state
\* becomes q_error when configured and is otherwise unchanged, the stack is
\* unchanged, and the message names sym and the state step was called in.
C8_AsStated ==
    (pdaCall.op = "step" /\ MatchingAtCall = {}) =>
        /\ ~pdaCall.ok
        /\ pda.current_state = (IF ErrorConfigured(pda) THEN "q_error"
                                ELSE pdaCall.pre.current_state)
        /\ pda.stack = pdaCall.pre.stack
        /\ pdaCall.error.text = "No valid transition for input in state"
        /\ pdaCall.error.input = pdaCall.input_symbol
        /\ pdaCall.error.state = pdaCall.pre.current_state

(***************************************************************************)
(* Claims about PDAStack.                                                  *)
(***************************************************************************)
\* C9: after any sequence of push, pop, peek and clear the bottom element is the
\* initial sentinel, is_empty() holds iff only the sentinel remains, and pop()
\* on a sentinel-only stack returns None and changes neither the contents nor
\* the history.
C9_SentinelStaysAtBottom ==
    /\ Len(stk._stack) >= 1
    /\ stk._stack[1] = stk._initial_symbol
    /\ StackIsEmpty(stk) <=> Len(stk._stack) = 1
    /\ (stkCall.op = "pop" /\ Len(stkCall.pre._stack) = 1) =>
          /\ stkCall.ret = None
          /\ stk._stack = stkCall.pre._stack
          /\ stk._history = stkCall.pre._history

\* pop() was called on a stack that held only the sentinel after a push and a pop.
C9_Witness ==
    /\ stkCall.op = "pop"
    /\ Len(stkCall.pre._stack) = 1
    /\ Len(stkCall.pre._history) = 2
    /\ stkCall.ret = None

(***************************************************************************)
(* Claims about InfixValidator.                                            *)
(***************************************************************************)
\* The grammar E ::= operand | '(' E ')' | E operator E over token kinds.
RECURSIVE WellFormedInfix(_)
WellFormedInfix(kinds) ==
    LET n == Len(kinds)
    IN \/ kinds = <<"OPERAND">>
       \/ /\ n >= 3
          /\ kinds[1] = "LPAREN"
          /\ kinds[n] = "RPAREN"
          /\ WellFormedInfix(SubSeq(kinds, 2, n - 1))
       \/ \E k \in 2..(n - 1) :
             /\ kinds[k] = "OPERATOR"
             /\ WellFormedInfix(SubSeq(kinds, 1, k - 1))
             /\ WellFormedInfix(SubSeq(kinds, k + 1, n))

TokenKinds(tokens) == [i \in 1..Len(tokens) |-> ClassifyToken(tokens[i])]

ValidatedKinds == TokenKinds(TokenizeInfix(infixCall.expression))

OnlyKnownTokens == \A i \in 1..Len(ValidatedKinds) : ValidatedKinds[i] # "INVALID"

\* Every token was stepped successfully and the PDA ended in q_expect_operator
\* with only the sentinel on its stack.
InfixRunAccepts ==
    /\ ValidatedKinds # <<>>
    /\ Len(infix.pda._execution_history) = Len(ValidatedKinds)
    /\ Len(infix.pda._transition_history) = Len(ValidatedKinds)
    /\ infix.pda.current_state = "q_expect_operator"
    /\ infix.pda.stack._stack = <<"Z0">>

\* C10: for every token sequence over operands, operators, '(' and ')' up to a
\* bounded length, InfixValidator.validate reports is_valid = True iff the
\* sequence is a well-formed infix expression of E ::= operand | '(' E ')' |
\* E operator E, and iff every token was consumed without a failed step and the
\* PDA ended in q_expect_operator with only the sentinel on the stack.
C10_InfixValidatorRecognisesGrammar ==
    (infixCall.op = "validate" /\ OnlyKnownTokens) =>
        /\ infixCall.result.is_valid <=> WellFormedInfix(ValidatedKinds)
        /\ infixCall.result.is_valid <=> InfixRunAccepts

\* A parenthesised sum of five tokens was validated and found valid.
C10_Witness ==
    /\ infixCall.op = "validate"
    /\ ValidatedKinds = <<"LPAREN", "OPERAND", "OPERATOR", "OPERAND", "RPAREN">>
    /\ infixCall.result.is_valid
    /\ Len(infixCall.result.execution_trace) = 5

\* Every token was stepped successfully: one transition per token.
InfixAllTokensStepped ==
    /\ ValidatedKinds # <<>>
    /\ OnlyKnownTokens
    /\ Len(infix.pda._transition_history) = Len(ValidatedKinds)

\* C11: whenever InfixValidator.validate steps every token without a failure
\* and the stack holds more than the sentinel at the end, the result is invalid
\* with the message 'Unmatched opening parenthesis', in q_expect_operand as in
\* q_expect_operator.
C11_OpenParenthesisReported ==
    (/\ infixCall.op = "validate"
     /\ InfixAllTokensStepped
     /\ ~StackIsEmpty(infix.pda.stack)) =>
        /\ ~infixCall.result.is_valid
        /\ infixCall.result.message = [text |-> "Unmatched opening parenthesis"]
        /\ infixCall.result.final_state = infix.pda.current_state
        /\ infix.pda.current_state \in {"q_expect_operand", "q_expect_operator"}

\* '(3+' was validated: the run ended in q_expect_operand with '(' on the
\* stack, and the message names the parenthesis.
C11_Witness ==
    /\ infixCall.op = "validate"
    /\ ValidatedKinds = <<"LPAREN", "OPERAND", "OPERATOR">>
    /\ InfixAllTokensStepped
    /\ infix.pda.current_state = "q_expect_operand"
    /\ StackGetContents(infix.pda.stack) = <<"Z0", "(">>
    /\ infixCall.result.message = [text |-> "Unmatched opening parenthesis"]

(***************************************************************************)
(* Claims about PostfixValidator and PrefixValidator.                      *)
(***************************************************************************)
\* The kinds of the tokens of the last expression validated as postfix.
PostfixKinds == TokenKinds(TokenizePostfix(polishCall.postfix.expression))

OperandsAndOperators(kinds) ==
    kinds # <<>> /\ \A i \in 1..Len(kinds) : kinds[i] \in {"OPERAND", "OPERATOR"}

\* Operands minus operators among the first k tokens.
CounterAfter(kinds, k) ==
    Cardinality({i \in 1..k : kinds[i] = "OPERAND"})
        - Cardinality({i \in 1..k : kinds[i] = "OPERATOR"})

\* The positions of the operators met while the counter is below 2.
StarvedOperators(kinds) ==
    {k \in 1..Len(kinds) : kinds[k] = "OPERATOR" /\ CounterAfter(kinds, k - 1) < 2}

\* C12: on a non-empty sequence of operand and operator tokens,
\* PostfixValidator.validate counts +1 per operand and -1 per operator (each
\* trace line shows the count), rejects with 'Not enough operands' at the
\* first operator met while the count is below 2, rejects with 'Too many
\* operands' when the final count exceeds 1, and reports valid iff no operator
\* was rejected and the final count is exactly 1.
C12_PostfixCounter ==
    (polishCall.postfix.op = "validate" /\ OperandsAndOperators(PostfixKinds)) =>
        LET kinds == PostfixKinds
            tokens == TokenizePostfix(polishCall.postfix.expression)
            result == polishCall.postfix.result
            starved == StarvedOperators(kinds)
            first == MinOf(starved)
            final == CounterAfter(kinds, Len(kinds))
            read == IF starved = {} THEN Len(kinds) ELSE first - 1
        IN /\ Len(result.execution_trace) = read
           /\ \A i \in 1..read :
                 result.execution_trace[i].operands = CounterAfter(kinds, i)
           /\ starved # {} => result.message = NotEnoughOperands(tokens[first])
           /\ (starved = {} /\ final > 1) => result.message = TooManyOperands(final)
           /\ result.is_valid <=> (starved = {} /\ final = 1)

\* '3 12 + 3' was validated as postfix: four tokens counted 1, 2, 1, 2 and the
\* verdict is 'Too many operands (2)'.
C12_Witness ==
    /\ polishCall.postfix.op = "validate"
    /\ PostfixKinds = <<"OPERAND", "OPERAND", "OPERATOR", "OPERAND">>
    /\ polishCall.postfix.result.message = TooManyOperands(2)
    /\ Len(polishCall.postfix.result.execution_trace) = 4

\* The kinds of the tokens of the last expression validated as prefix.
PrefixKinds == TokenKinds(TokenizePrefix(polishCall.prefix.expression))

\* The grammar P ::= operand | operator P P over token kinds: the position
\* after the expression that starts at position i, or 0 when there is none.
RECURSIVE PrefixEnd(_, _)
PrefixEnd(kinds, i) ==
    IF i > Len(kinds) THEN 0
    ELSE IF kinds[i] = "OPERAND" THEN i + 1
    ELSE IF kinds[i] = "OPERATOR"
    THEN LET left == PrefixEnd(kinds, i + 1)
         IN IF left = 0 THEN 0 ELSE PrefixEnd(kinds, left)
    ELSE 0

WellFormedPrefix(kinds) == PrefixEnd(kinds, 1) = Len(kinds) + 1

\* The expression was validated as prefix and, with its words in reverse
\* order, as postfix.
ValidatedBothWays ==
    /\ polishCall.prefix.op = "validate"
    /\ polishCall.postfix.op = "validate"
    /\ polishCall.prefix.expression = polishCall.expression
    /\ polishCall.postfix.expression = ReversedWords(polishCall.expression)

\* C13: for every sequence t of operand and operator tokens,
\* PrefixValidator.validate(t) and PostfixValidator.validate(t reversed) give
\* the same verdict, the same failure message and the same counts token by
\* token, and the prefix verdict is valid exactly when t is a well-formed
\* prefix expression of P ::= operand | operator P P.
C13_PrefixIsReversedPostfix ==
    (ValidatedBothWays /\ OperandsAndOperators(PrefixKinds)) =>
        LET pre == polishCall.prefix.result
            post == polishCall.postfix.result
        IN /\ pre.is_valid = post.is_valid
           /\ ~pre.is_valid => pre.message = post.message
           /\ pre.is_valid => /\ pre.message = [text |-> "Valid prefix expression"]
                              /\ post.message = [text |-> "Valid postfix expression"]
           /\ pre.final_state = post.final_state
           /\ Len(pre.execution_trace) = Len(post.execution_trace)
           /\ \A i \in 1..Len(pre.execution_trace) :
                 /\ pre.execution_trace[i].token = post.execution_trace[i].token
                 /\ pre.execution_trace[i].operands = post.execution_trace[i].operands
                 /\ pre.execution_trace[i].stack = post.execution_trace[i].stack
           /\ pre.is_valid <=> WellFormedPrefix(PrefixKinds)

\* '* + 3 12 3' was validated as prefix and '3 12 3 + *' as postfix, and both
\* were found valid.
C13_Witness ==
    /\ ValidatedBothWays
    /\ polishCall.expression =
          <<"*", " ", "+", " ", "3", " ", "1", "2", " ", "3">>
    /\ polishCall.postfix.expression =
          <<"3", " ", "1", "2", " ", "3", " ", "+", " ", "*">>
    /\ polishCall.prefix.result.is_valid
    /\ polishCall.postfix.result.is_valid

(***************************************************************************)
(* Claims about ExpressionConverter.                                       *)
(***************************************************************************)
DirectConversions ==
    {"infix_to_postfix", "infix_to_prefix", "postfix_to_infix", "prefix_to_infix",
     "postfix_to_prefix", "prefix_to_postfix"}

\* The notation a conversion reads.
SourceOf(op) ==
    IF op \in {"infix_to_postfix", "infix_to_prefix"} THEN "INFIX"
    ELSE IF op \in {"postfix_to_infix", "postfix_to_prefix"} THEN "POSTFIX"
    ELSE "PREFIX"

\* The verdict of the validator of a notation on an expression.
ValidatorVerdict(notation, expression) ==
    IF notation = "INFIX" THEN ValidateInfix(expression)
    ELSE IF notation = "POSTFIX" THEN ValidatePostfix(expression)
    ELSE ValidatePrefix(expression)

\* The last call was one of the six conversions.
LastIsDirect == convCalls # <<>> /\ Last(convCalls).op \in DirectConversions

\* The verdict of the source-notation validator on the argument of the last call.
LastVerdict == ValidatorVerdict(SourceOf(Last(convCalls).op), Last(convCalls).expression)

\* C14: for each of the six conversions, if the validator of the source
\* notation rejects the expression, the ConversionResult has success = False,
\* an empty result_expression and the validator's message as error_message.
C14_RejectedSourceFailsConversion ==
    (LastIsDirect /\ ~LastVerdict.is_valid) =>
        /\ ~Last(convCalls).result.success
        /\ Last(convCalls).result.result_expression = <<>>
        /\ Last(convCalls).result.error_message = LastVerdict.message

\* postfix_to_prefix was called on '1 -': it failed with the postfix
\* validator's 'Not enough operands for operator -'.
C14_Witness ==
    /\ LastIsDirect
    /\ Last(convCalls).op = "postfix_to_prefix"
    /\ Last(convCalls).expression = <<"1", " ", "-">>
    /\ ~LastVerdict.is_valid
    /\ Last(convCalls).result.error_message = NotEnoughOperands(<<"-">>)

\* The last call failed on a validation that had stepped through some tokens.
FailedAfterSomeTokens ==
    /\ LastIsDirect
    /\ ~LastVerdict.is_valid
    /\ LastVerdict.message # [text |-> "Empty expression"]
    /\ LastVerdict.execution_trace # <<>>

\* C15 as stated: when a conversion fails because the validation of the source
\* expression failed, every per-token entry of the validator's execution trace
\* appears in the conversion's steps.
C15_AsStated ==
    FailedAfterSomeTokens =>
        \A i \in 1..Len(LastVerdict.execution_trace) :
            \E j \in 1..Len(Last(convCalls).result.steps) :
                Last(convCalls).result.steps[j] = LastVerdict.execution_trace[i]

\* C15, amended: when a conversion fails because the validation of the source
\* expression failed, its steps are the single entry 'Validation failed: '
\* with the validator's message; no entry of the validator's execution trace
\* is among them.
C15_StepsCarryMessageOnly ==
    (LastIsDirect /\ ~LastVerdict.is_valid) =>
        Last(convCalls).result.steps =
            << [text |-> "Validation failed", message |-> LastVerdict.message] >>

\* infix_to_postfix was called on '1-': the validator stepped over two tokens
\* before it rejected, and the conversion's steps hold one entry.
C15_Witness ==
    /\ FailedAfterSomeTokens
    /\ Last(convCalls).op = "infix_to_postfix"
    /\ Last(convCalls).expression = <<"1", "-">>
    /\ Len(LastVerdict.execution_trace) = 2
    /\ Len(Last(convCalls).result.steps) = 1

\* The parse tree of a well-formed infix token list, read off the grammar and
\* not off the conversion algorithms: the root is the rightmost operator of
\* lowest precedence outside every parenthesis (+ and - bind less than * and /,
\* all four associate to the left); a list with no such operator is an operand
\* or a parenthesised list.
TreePrecedence(token) == IF token \in {<<"+">>, <<"-">>} THEN 1 ELSE 2
TreeOperators == {<<"+">>, <<"-">>, <<"*">>, <<"/">>}

\* The number of parentheses open before position i.
DepthBefore(tokens, i) ==
    Cardinality({j \in 1..(i - 1) : tokens[j] = <<"(">>})
        - Cardinality({j \in 1..(i - 1) : tokens[j] = <<")">>})

\* The positions of the operators outside every parenthesis.
OuterOperators(tokens) ==
    {i \in 1..Len(tokens) : tokens[i] \in TreeOperators /\ DepthBefore(tokens, i) = 0}

\* The position of the root operator.
RootOperator(tokens) ==
    CHOOSE i \in OuterOperators(tokens) :
        \A j \in OuterOperators(tokens) :
            \/ TreePrecedence(tokens[j]) > TreePrecedence(tokens[i])
            \/ TreePrecedence(tokens[j]) = TreePrecedence(tokens[i]) /\ j <= i

\* The tokens without their first and last.
Inside(tokens) == SubSeq(tokens, 2, Len(tokens) - 1)

\* The tree in post-order: left subtree, right subtree, root.
RECURSIVE PostOrder(_)
PostOrder(tokens) ==
    IF Len(tokens) <= 1 THEN tokens
    ELSE IF OuterOperators(tokens) = {} THEN PostOrder(Inside(tokens))
    ELSE Only({ PostOrder(SubSeq(tokens, 1, k - 1))
                    \o PostOrder(SubSeq(tokens, k + 1, Len(tokens)))
                    \o << tokens[k] >> : k \in {RootOperator(tokens)} })

\* The tree in pre-order: root, left subtree, right subtree.
RECURSIVE PreOrder(_)
PreOrder(tokens) ==
    IF Len(tokens) <= 1 THEN tokens
    ELSE IF OuterOperators(tokens) = {} THEN PreOrder(Inside(tokens))
    ELSE Only({ << tokens[k] >>
                    \o PreOrder(SubSeq(tokens, 1, k - 1))
                    \o PreOrder(SubSeq(tokens, k + 1, Len(tokens))) :
                k \in {RootOperator(tokens)} })

\* The last call was the conversion op, on an expression its validator accepts.
LastConverted(op) ==
    /\ convCalls # <<>>
    /\ Last(convCalls).op = op
    /\ LastVerdict.is_valid

\* C16: for every valid infix expression, infix_to_postfix succeeds with the
\* post-order form of the expression's parse tree (precedence + - below * /,
\* left-associative, parentheses overriding), tokens joined by one space, and
\* the postfix validator accepts the result.
C16_PostfixIsPostOrder ==
    LastConverted("infix_to_postfix") =>
        /\ Last(convCalls).result.success
        /\ Last(convCalls).result.result_expression =
               JoinWords(PostOrder(TokenizeInfix(Last(convCalls).expression)))
        /\ ValidatePostfix(Last(convCalls).result.result_expression).is_valid

\* infix_to_postfix turned '1-2-1' into '1 2 - 1 -'.
C16_Witness ==
    /\ LastConverted("infix_to_postfix")
    /\ Last(convCalls).expression = <<"1", "-", "2", "-", "1">>
    /\ Last(convCalls).result.result_expression =
           <<"1", " ", "2", " ", "-", " ", "1", " ", "-">>

\* C17: for every valid infix expression, infix_to_prefix succeeds with the
\* pre-order form of the same left-associative parse tree, tokens joined by
\* one space.
C17_PrefixIsPreOrder ==
    LastConverted("infix_to_prefix") =>
        /\ Last(convCalls).result.success
        /\ Last(convCalls).result.result_expression =
               JoinWords(PreOrder(TokenizeInfix(Last(convCalls).expression)))

\* infix_to_prefix turned '1-2-1' into '- - 1 2 1'.
C17_Witness ==
    /\ LastConverted("infix_to_prefix")
    /\ Last(convCalls).expression = <<"1", "-", "2", "-", "1">>
    /\ Last(convCalls).result.result_expression =
           <<"-", " ", "-", " ", "1", " ", "2", " ", "1">>

\* Every operand of the token list is one digit.
SingleDigitOperands(tokens) ==
    \A i \in 1..Len(tokens) :
        IsDigit(tokens[i]) => Len(tokens[i]) = 1 /\ tokens[i][1] \in DIGITS

\* The calls so far are first and then second, in this order.
Chained(first, second) ==
    /\ Len(convCalls) = 2
    /\ convCalls[1].op = first
    /\ convCalls[2].op = second

\* C18: for every valid postfix expression s with single-digit operands,
\* postfix_to_infix succeeds on s and infix_to_postfix of its result succeeds
\* with the tokens of s, joined by one space.
C18_PostfixRoundTrip ==
    /\ (/\ Len(convCalls) = 1
        /\ convCalls[1].op = "postfix_to_infix"
        /\ ValidatePostfix(convExpr).is_valid
        /\ SingleDigitOperands(TokenizePostfix(convExpr)))
           => convCalls[1].result.success
    /\ (/\ Chained("postfix_to_infix", "infix_to_postfix")
        /\ ValidatePostfix(convExpr).is_valid
        /\ SingleDigitOperands(TokenizePostfix(convExpr)))
           => /\ convCalls[2].expression = convCalls[1].result.result_expression
              /\ convCalls[2].result.success
              /\ convCalls[2].result.result_expression = JoinWords(TokenizePostfix(convExpr))

\* '1 2 - 1 *' went to infix and back to '1 2 - 1 *'.
C18_Witness ==
    /\ Chained("postfix_to_infix", "infix_to_postfix")
    /\ convExpr = <<"1", " ", "2", " ", "-", " ", "1", " ", "*">>
    /\ convCalls[1].result.result_expression =
           <<"(", "(", "1", "-", "2", ")", "*", "1", ")">>
    /\ convCalls[2].result.result_expression = convExpr

\* The parse tree written with a pair of parentheses around every operation.
RECURSIVE FullyParenthesised(_)
FullyParenthesised(tokens) ==
    IF tokens = <<>> THEN <<>>
    ELSE IF Len(tokens) = 1 THEN tokens[1]
    ELSE IF OuterOperators(tokens) = {} THEN FullyParenthesised(Inside(tokens))
    ELSE Only({ <<"(">> \o FullyParenthesised(SubSeq(tokens, 1, k - 1))
                    \o tokens[k]
                    \o FullyParenthesised(SubSeq(tokens, k + 1, Len(tokens)))
                    \o <<")">> : k \in {RootOperator(tokens)} })

\* The expression drawn at the start is a valid infix expression with
\* single-digit operands.
ValidSingleDigitInfix ==
    /\ ValidateInfix(convExpr).is_valid
    /\ SingleDigitOperands(TokenizeInfix(convExpr))

\* C19: for every valid infix expression e with single-digit operands,
\* prefix_to_infix(infix_to_prefix(e)) is the fully parenthesised infix form
\* of e's parse tree, and it equals postfix_to_infix(infix_to_postfix(e)).
C19_InfixRoundTripsAgree ==
    /\ (Chained("infix_to_prefix", "prefix_to_infix") /\ ValidSingleDigitInfix)
           => /\ convCalls[2].expression = convCalls[1].result.result_expression
              /\ convCalls[2].result.success
              /\ convCalls[2].result.result_expression =
                     FullyParenthesised(TokenizeInfix(convExpr))
              /\ convCalls[2].result.result_expression =
                     PostfixToInfix(InfixToPostfix(convExpr).result_expression).result_expression
    /\ (Chained("infix_to_postfix", "postfix_to_infix") /\ ValidSingleDigitInfix)
           => /\ convCalls[2].result.success
              /\ convCalls[2].result.result_expression =
                     FullyParenthesised(TokenizeInfix(convExpr))

\* '1-2*1' went to prefix '- 1 * 2 1' and back to '(1-(2*1))'.
C19_Witness ==
    /\ Chained("infix_to_prefix", "prefix_to_infix")
    /\ convExpr = <<"1", "-", "2", "*", "1">>
    /\ convCalls[1].result.result_expression =
           <<"-", " ", "1", " ", "*", " ", "2", " ", "1">>
    /\ convCalls[2].result.result_expression =
           <<"(", "1", "-", "(", "2", "*", "1", ")", ")">>

\* The last call was convert with the same source and target notation.
LastIsSameNotationConvert ==
    /\ convCalls # <<>>
    /\ Last(convCalls).op = "convert"
    /\ Last(convCalls).result.source_notation = Last(convCalls).result.target_notation

\* C20: for every notation N and every expression, convert(expr, N, N)
\* succeeds with result_expression equal to expr and with the steps
\* ['No conversion needed - same notation'].
C20_SameNotationIsIdentity ==
    LastIsSameNotationConvert =>
        /\ Last(convCalls).result.success
        /\ Last(convCalls).result.result_expression = Last(convCalls).expression
        /\ Last(convCalls).result.steps =
               << [text |-> "No conversion needed - same notation"] >>

\* convert('x', POSTFIX, POSTFIX) succeeded with 'x', which no validator accepts.
C20_Witness ==
    /\ LastIsSameNotationConvert
    /\ Last(convCalls).expression = <<"x">>
    /\ Last(convCalls).result.source_notation = "POSTFIX"
    /\ ~ValidatePostfix(<<"x">>).is_valid
    /\ Last(convCalls).result.success
    /\ Last(convCalls).result.result_expression = <<"x">>

(***************************************************************************)
(* Claims about unrecognised tokens.                                       *)
(***************************************************************************)
\* The positions of the unrecognised tokens of a token list.
InvalidPositions(tokens) ==
    {i \in 1..Len(tokens) : ClassifyToken(tokens[i]) = "INVALID"}

\* The position of the first unrecognised token.
FirstInvalid(tokens) == CHOOSE i \in InvalidPositions(tokens) :
                            \A j \in InvalidPositions(tokens) : i <= j

\* As the claim has it: the result is the 'Invalid token' rejection and its
\* execution trace holds no step.
RejectedBeforeAnyStep(result) ==
    /\ ~result.is_valid
    /\ result.message.text = "Invalid token"
    /\ result.execution_trace = <<>>

\* What the token loops do: the result is a rejection, its trace holds lines
\* for tokens before the first unrecognised one only, in order, and the
\* message is 'Invalid token', naming that token, when every token before it
\* has a line in the trace and was not itself rejected.
RejectedAtInvalidToken(tokens, result) ==
    \E k \in {FirstInvalid(tokens)} :
        /\ ~result.is_valid
        /\ Len(result.execution_trace) < k
        /\ \A i \in 1..Len(result.execution_trace) :
               result.execution_trace[i].token = tokens[i]
        /\ result.message.text = "Invalid token" =>
               /\ result.message = InvalidToken(tokens[k])
               /\ Len(result.execution_trace) = k - 1
               /\ result.final_state = "q_error"

\* The postfix validation of the expression handed to the InfixValidator.
PostfixOfInfixCall == ValidatePostfix(infixCall.expression)

LastIsTwoLegged ==
    /\ convCalls # <<>>
    /\ Last(convCalls).op \in {"postfix_to_prefix", "prefix_to_postfix"}

\* The first leg of the last call: the conversion of its argument to infix.
FirstLeg ==
    IF Last(convCalls).op = "postfix_to_prefix"
    THEN PostfixToInfix(Last(convCalls).expression)
    ELSE PrefixToInfix(Last(convCalls).expression)

\* The result is a failure with the first leg's message, and its steps begin
\* with the first leg's steps.
FailedAsFirstLeg(result, leg) ==
    /\ ~result.success
    /\ result.result_expression = <<>>
    /\ result.error_message = leg.error_message
    /\ Len(result.steps) >= Len(leg.steps)
    /\ SubSeq(result.steps, 1, Len(leg.steps)) = leg.steps

\* C22 as stated: when the first leg of postfix_to_prefix or prefix_to_postfix
\* fails, the result is a failure with the first leg's message and steps, and
\* the steps hold a further entry, the note that the second leg never ran.
C22_AsStated ==
    (LastIsTwoLegged /\ ~FirstLeg.success) =>
        /\ FailedAsFirstLeg(Last(convCalls).result, FirstLeg)
        /\ Len(Last(convCalls).result.steps) > Len(FirstLeg.steps)

\* C22, amended: when the first leg of postfix_to_prefix or prefix_to_postfix
\* fails, the result is a failure with the first leg's message and exactly the
\* first leg's steps: no note about the second leg is added.
C22_FirstLegFailureSurfaces ==
    (LastIsTwoLegged /\ ~FirstLeg.success) =>
        /\ FailedAsFirstLeg(Last(convCalls).result, FirstLeg)
        /\ Last(convCalls).result.steps = FirstLeg.steps

\* prefix_to_postfix was called on '1 -': prefix_to_infix failed on it, and the
\* result carries its message and its one step.
C22_Witness ==
    /\ LastIsTwoLegged
    /\ Last(convCalls).op = "prefix_to_postfix"
    /\ Last(convCalls).expression = <<"1", " ", "-">>
    /\ ~FirstLeg.success
    /\ ~Last(convCalls).result.success
    /\ Len(Last(convCalls).result.steps) = 1
    /\ Last(convCalls).result.steps[1].text = "Validation failed"

(***************************************************************************)
(* Claims about building the trie.                                         *)
(***************************************************************************)
\* The trie has an edge for every symbol of sequence, walking from node id
\* current.
RECURSIVE CanWalk(_, _, _)
CanWalk(m, current, sequence) ==
    \/ sequence = <<>>
    \/ /\ HasTransition(m.nodes[current], Head(sequence))
       /\ CanWalk(m, GetNextState(m.nodes[current], Head(sequence)), Tail(sequence))

\* The node id such a walk ends in.
RECURSIVE Walk(_, _, _)
Walk(m, current, sequence) ==
    IF sequence = <<>> THEN current
    ELSE Walk(m, GetNextState(m.nodes[current], Head(sequence)), Tail(sequence))

\* The sequences that lead from the root to a node. A trie of n nodes is less
\* than n deep.
Paths(m) ==
    {q \in SeqsUpTo(Symbols, m._state_counter - 1) : CanWalk(m, m.root, q)}

\* The trie up to the numbering of its nodes: every path from the root with
\* the accept flag and the label of the node it leads to.
TrieShape(m) ==
    { [path |-> q,
       is_accept |-> m.nodes[Walk(m, m.root, q)].is_accept,
       combo_name |-> m.nodes[Walk(m, m.root, q)].combo_name] : q \in Paths(m) }

\* The values process_input returns on the inputs, one after the other.
RECURSIVE Returns(_, _)
Returns(m, inputs) ==
    IF inputs = <<>> THEN <<>>
    ELSE Only({ <<r.ret>> \o Returns(r.sm, Tail(inputs)) :
                r \in {ProcessInput(m, Head(inputs))} })

IsBuild(call) == call.op = "build_from_combos"

\* The build_from_combos calls made so far, and the process_input calls.
Builds == SelectSeq(smCalls, IsBuild)
Inputs == SelectSeq(smCalls, IsProcessInput)

\* A new matcher built once from the list of the last build_from_combos call.
BuiltOnce == BuildFromCombos(NewComboStateMachine, Last(Builds).combos)

\* C23 as stated: after a second build_from_combos the matcher has the nodes,
\* accept flags and labels of a new matcher built once from the second list,
\* and process_input returns on it what it returns on that matcher.
C23_AsStated ==
    Len(Builds) >= 2 =>
        /\ TrieShape(sm) = TrieShape(BuiltOnce)
        /\ sm._state_counter = BuiltOnce._state_counter
        /\ [i \in 1..Len(Inputs) |-> Inputs[i].ret]
               = Returns(BuiltOnce, [i \in 1..Len(Inputs) |-> Inputs[i].input_symbol])

\* The lists that hold the combos of the list in some order.
PermutationsOf(combos) ==
    { [i \in 1..Len(combos) |-> combos[f[i]]] :
        f \in {g \in [1..Len(combos) -> 1..Len(combos)] :
                  \A i, j \in 1..Len(combos) : i # j => g[i] # g[j]} }

\* C24: for a pattern list without two identical sequences, process_input
\* returns at every position of the input stream what it returns, on the same
\* stream, on a matcher built from any permutation of the list.
C24_OrderOfPatternsIsImmaterial ==
    NoDuplicateSequences(sm.combo_list) =>
        \A combos \in PermutationsOf(sm.combo_list) :
            [i \in 1..Len(smCalls) |-> smCalls[i].ret]
                = Returns(BuildFromCombos(NewComboStateMachine, combos),
                          [i \in 1..Len(smCalls) |-> smCalls[i].input_symbol])

\* Two patterns with different sequences were registered, the second a
\* two-symbol one, and three inputs were fed of which the last completed a
\* pattern.
C24_Witness ==
    /\ Len(sm.combo_list) = 2
    /\ NoDuplicateSequences(sm.combo_list)
    /\ Len(sm.combo_list[2][1]) = 2
    /\ sm.combo_list[1][1] # <<>>
    /\ Cardinality(PermutationsOf(sm.combo_list)) = 2
    /\ Len(smCalls) = 3
    /\ smCalls[1].ret = None
    /\ smCalls[3].ret # None

\* Sequence p is registered, not empty, and a strict prefix of sequence q.
RegisteredStrictPrefix(p, q) ==
    /\ \E i \in 1..Len(sm.combo_list) : sm.combo_list[i][1] = p
    /\ p # <<>>
    /\ Len(p) < Len(q)
    /\ IsPrefix(p, q)

\* The accept reached first on the way along q: the registered strict prefix
\* of q that has no registered strict prefix itself.
FirstAcceptOn(p, q) ==
    /\ RegisteredStrictPrefix(p, q)
    /\ \A i \in 1..Len(sm.combo_list) : ~RegisteredStrictPrefix(sm.combo_list[i][1], p)

\* The label build_from_combos left on the node of sequence p: that of the
\* last pattern of the list with this sequence.
LabelOf(p) ==
    sm.combo_list[MaxOf({i \in 1..Len(sm.combo_list) : sm.combo_list[i][1] = p})][2]

\* C25: when a registered sequence P is a strict prefix of a registered
\* sequence Q, and its accept is the first on the way along Q, feeding Q from the
\* root returns None before the last symbol of P and P's label on it, with the
\* cursor back at the root, and the rest of Q is processed as it is from the root.
C25_FirstAcceptWins ==
    \A n \in 1..Len(sm.combo_list) : \A k \in 0..Len(smCalls) :
        \A j \in 1..(Len(sm.combo_list[n][1]) - 1) :
            (/\ FirstAcceptOn(SubSeq(sm.combo_list[n][1], 1, j), sm.combo_list[n][1])
             /\ FedFromRoot(k, Len(sm.combo_list[n][1]), sm.combo_list[n][1]))
            => /\ \A i \in 1..(j - 1) : smCalls[k + i].ret = None
               /\ smCalls[k + j].ret = LabelOf(SubSeq(sm.combo_list[n][1], 1, j))
               /\ smCalls[k + j].to = sm.root
               /\ smCalls[k + j].history = <<>>
               /\ smCalls[k + j + 1].from = sm.root
               /\ [i \in 1..(Len(sm.combo_list[n][1]) - j) |-> smCalls[k + j + i].ret]
                      = Returns(Reset(sm),
                                SubSeq(sm.combo_list[n][1], j + 1, Len(sm.combo_list[n][1])))

\* RIGHT and RIGHT SPACE are registered and RIGHT SPACE was fed from the root:
\* RIGHT returned its label, and SPACE, which starts no pattern, returned None.
C25_Witness ==
    /\ Len(sm.combo_list) = 2
    /\ sm.combo_list[1] = << <<"RIGHT">>, "Hadoken" >>
    /\ sm.combo_list[2] = << <<"RIGHT", "SPACE">>, "Shoryuken" >>
    /\ FedFromRoot(0, 2, <<"RIGHT", "SPACE">>)
    /\ smCalls[1].ret = "Hadoken"
    /\ smCalls[2].from = sm.root
    /\ smCalls[2].ret = None

(***************************************************************************)
(* Claims about GameController.                                            *)
(***************************************************************************)
IsCall == gcCall.op # "__init__"

\* How long SPACE had been held when the last call started.
HoldAtCall == gcCall.at - gcCall.before.space_press_time

\* The last call started with SPACE held for no more than CHARGE_MAX.
HeldWithinCharge == gcCall.before.is_space_held /\ HoldAtCall <= CHARGE_MAX

HasFired(name) == \E i \in DOMAIN gcCall.callbacks : gcCall.callbacks[i].name = name

TimesFired(name) == Cardinality({i \in DOMAIN gcCall.callbacks : gcCall.callbacks[i].name = name})

AtRoot(c) == c.state_machine.current_state = c.state_machine.root

\* C26: a call that starts while SPACE is held, the hold not yet longer than
\* CHARGE_MAX, fires no on_timeout and does not take the matcher back to the
\* root by a timeout, whichever of key-down, key-up and update() it is.
C26_AsStated ==
    (IsCall /\ HeldWithinCharge) => ~HasFired("on_timeout")

\* The last call was process_key_up reaching process_input('SPACE'): the
\* controller was not frozen, SPACE was held and the hold was within CHARGE_MAX.
FedSpace ==
    /\ gcCall.op = "process_key_up"
    /\ gcCall.key = "SPACE"
    /\ ~gcCall.before.is_frozen
    /\ HeldWithinCharge

\* C27: when process_key_up feeds SPACE to the matcher, the node the matcher
\* is on has an outgoing SPACE edge, and the call returns a combo.
C27_AsStated ==
    FedSpace =>
        /\ HasTransition(gcCall.before.state_machine.nodes[gcCall.before.state_machine.current_state], "SPACE")
        /\ gcCall.ret # None

\* The last call was one that looks at the length of the hold, update() or
\* the release of SPACE, and started with SPACE held for longer than CHARGE_MAX.
NoticedOverhold ==
    /\ gcCall.op = "update" \/ (gcCall.op = "process_key_up" /\ gcCall.key = "SPACE")
    /\ gcCall.before.is_space_held
    /\ HoldAtCall > CHARGE_MAX

\* C28: the first update() or release of SPACE after the hold has exceeded
\* CHARGE_MAX reports no combo, leaves the matcher at the root and fires
\* on_combo_cancelled once; it ends the hold, and on_combo_cancelled fires in no
\* call but such a one, so it fires once for the press.
C28_OverholdCancelsOnce ==
    IsCall =>
        /\ NoticedOverhold =>
              /\ gcCall.ret = None
              /\ ~HasFired("on_combo_detected")
              /\ AtRoot(gc)
              /\ ~gc.is_space_held
              /\ TimesFired("on_combo_cancelled") = 1
        /\ HasFired("on_combo_cancelled") => NoticedOverhold

\* update() found SPACE held for more than CHARGE_MAX with the matcher on the
\* node RIGHT leads to, and cancelled.
C28_Witness ==
    /\ gcCall.op = "update"
    /\ NoticedOverhold
    /\ ~AtRoot(gcCall.before)
    /\ HasFired("on_combo_cancelled")
    /\ AtRoot(gc)

\* The release of SPACE came first, after more than CHARGE_MAX, and cancelled.
C28_ReleaseNoticesFirst ==
    /\ gcCall.op = "process_key_up"
    /\ NoticedOverhold
    /\ HasFired("on_combo_cancelled")

\* How long the controller had been frozen when the last call started.
FrozenFor == gcCall.at - gcCall.before.freeze_start_time

IsKeyCall == gcCall.op \in {"process_key_down", "process_key_up"}

\* C29: a call that detects a combo freezes the controller at the time of the
\* call. A key-down or key-up on a frozen controller returns None and leaves the
\* matcher's cursor, the display history and the freeze as they are; update()
\* before FREEZE_DURATION has passed changes nothing and fires nothing; update()
\* at or after FREEZE_DURATION leaves is_frozen false, the matcher at the root
\* and the display history empty, and nothing else ends the freeze.
C29_FrozenUntilUpdateAfterFreezeDuration ==
    IsCall =>
        /\ HasFired("on_combo_detected") =>
              gc.is_frozen /\ gc.freeze_start_time = gcCall.at
        /\ (gcCall.before.is_frozen /\ IsKeyCall) =>
              /\ gcCall.ret = None
              /\ gcCall.callbacks = <<>>
              /\ gc.state_machine = gcCall.before.state_machine
              /\ gc.display_history = gcCall.before.display_history
              /\ gc.is_frozen
        /\ (gcCall.before.is_frozen /\ gcCall.op = "update" /\ FrozenFor < FREEZE_DURATION) =>
              /\ gc = gcCall.before
              /\ gcCall.callbacks = <<>>
        /\ (gcCall.before.is_frozen /\ gcCall.op = "update" /\ FrozenFor >= FREEZE_DURATION) =>
              /\ ~gc.is_frozen
              /\ AtRoot(gc)
              /\ gc.display_history = <<>>
              /\ gcCall.callbacks = <<Fired("on_freeze_end")>>

\* A combo froze the controller with RIGHT SPACE on display, and the update()
\* that ran exactly FREEZE_DURATION later ended the freeze.
C29_Witness ==
    /\ gcCall.op = "update"
    /\ gcCall.before.is_frozen
    /\ gcCall.before.display_history = <<"RIGHT", "SPACE">>
    /\ FrozenFor = FREEZE_DURATION
    /\ ~gc.is_frozen
    /\ gc.display_history = <<>>

\* A key went down while the controller was frozen, past the input timeout.
C29_KeyDownWhileFrozen ==
    /\ gcCall.op = "process_key_down"
    /\ gcCall.before.is_frozen
    /\ FrozenFor > TIMEOUT
    /\ gc.display_history = <<"RIGHT", "SPACE">>

\* main.py: "0.5 second freeze after successful combo", in half seconds.
DocumentedFreeze == 1

\* C30: update() on a controller frozen for 0.5 s or more ends the freeze, so
\* the controller accepts input again.
C30_AsStated ==
    (IsCall /\ gcCall.op = "update" /\ gcCall.before.is_frozen /\ FrozenFor >= DocumentedFreeze)
        => ~gc.is_frozen

\* The last call was a direction key going down on a controller that was not
\* frozen, more than TIMEOUT after the last accepted input.
KeyDownAfterGap ==
    /\ gcCall.op = "process_key_down"
    /\ gcCall.key # "SPACE"
    /\ ~gcCall.before.is_frozen
    /\ gcCall.before.last_input_time > 0
    /\ gcCall.at - gcCall.before.last_input_time > TIMEOUT

C32_ErrorStateIsATrap ==
    /\ pdaCall.op = "step" =>
          /\ ~pdaCall.ok => pda.current_state = "q_error"
          /\ pdaCall.pre.current_state = "q_error" =>
                ~pdaCall.ok /\ pda.current_state = "q_error"
    /\ pdaCall.op = "reset" => pda.current_state = "q_start"

\* On the infix PDA OPERATOR failed in q_start, and OPERAND, which q_start
\* accepts, was tried next and failed in q_error.
C32_Witness ==
    /\ pdaCall.op = "step"
    /\ pda.transitions = InfixTransitions
    /\ pdaCall.input_symbol = "OPERAND"
    /\ Len(pdaCall.pre._execution_history) = 1
    /\ pdaCall.pre._execution_history[1].state = "q_start"
    /\ pdaCall.pre._execution_history[1].remaining_input = "OPERATOR"
    /\ pdaCall.pre.current_state = "q_error"
    /\ ~pdaCall.ok

(***************************************************************************)
(* Claims about the shape of the trie and the matcher's cursor.            *)
(***************************************************************************)
\* The edges of the trie that lead to node id j, as <<source id, key>>.
Incoming(m, j) ==
    UNION { { <<i, m.nodes[i].transitions[k][1]>> :
                k \in {k \in 1..Len(m.nodes[i].transitions) : m.nodes[i].transitions[k][2] = j} } :
            i \in DOMAIN m.nodes }

\* The distinct non-empty prefixes of the sequences of a combo list.
NonEmptyPrefixes(combos) ==
    UNION { { SubSeq(combos[n][1], 1, k) : k \in 1..Len(combos[n][1]) } : n \in 1..Len(combos) }

\* The walks of at most k edges that start at the root, each as the sequence
\* of its keys. Among n nodes, two walks to one node show within n-1 edges.
RECURSIVE WalksFromRoot(_, _)
WalksFromRoot(m, k) ==
    IF k = 0 THEN {<<>>}
    ELSE Only({ shorter \cup UNION { { Append(q, Keys(m.nodes[Walk(m, m.root, q)].transitions)[e]) :
                                         e \in 1..Len(m.nodes[Walk(m, m.root, q)].transitions) } :
                                     q \in shorter } :
                shorter \in {WalksFromRoot(m, k - 1)} })

\* C33: the nodes of a matcher built once are numbered 0.._state_counter-1,
\* each under its own id; the root is node 0 and has no incoming edge; every
\* other node has exactly one incoming edge; every node is reached from the
\* root by exactly one path; and there is one node more than there are distinct
\* non-empty prefixes of the registered sequences.
C33_NodesFormATree ==
    /\ DOMAIN sm.nodes = 0..(sm._state_counter - 1)
    /\ \A i \in DOMAIN sm.nodes : sm.nodes[i].state_id = i
    /\ sm.root = 0
    /\ Incoming(sm, sm.root) = {}
    /\ \A j \in DOMAIN sm.nodes \ {sm.root} : Cardinality(Incoming(sm, j)) = 1
    /\ \A j \in DOMAIN sm.nodes :
          Cardinality({q \in WalksFromRoot(sm, sm._state_counter - 1) : Walk(sm, sm.root, q) = j}) = 1
    /\ sm._state_counter = 1 + Cardinality(NonEmptyPrefixes(sm.combo_list))

\* Two patterns that share their first symbol: the trie has a node for RIGHT,
\* one for RIGHT RIGHT and one for RIGHT SPACE, four with the root.
C33_Witness ==
    /\ Len(sm.combo_list) = 2
    /\ sm.combo_list[1][1] = <<"RIGHT", "RIGHT">>
    /\ sm.combo_list[2][1] = <<"RIGHT", "SPACE">>
    /\ sm._state_counter = 4
    /\ Len(sm.nodes[1].transitions) = 2

\* Every registered sequence has a symbol.
AllSequencesNonEmpty == \A n \in 1..Len(sm.combo_list) : sm.combo_list[n][1] # <<>>

\* C34: between calls input_history is a path of the trie from the root and
\* ends on the current node; and when no registered sequence is empty the
\* current node is not an accept node.
C34_HistorySpellsCursor ==
    /\ CanWalk(sm, sm.root, sm.input_history)
    /\ Walk(sm, sm.root, sm.input_history) = sm.current_state
    /\ AllSequencesNonEmpty => ~sm.nodes[sm.current_state].is_accept

\* A symbol with no edge from the cursor restarted the match from the root: the
\* history holds that symbol alone and the cursor is on the root's child for it.
C34_Witness ==
    /\ AllSequencesNonEmpty
    /\ Len(smCalls) = 2
    /\ smLast = "process_input"
    /\ smCalls[2].from # sm.root
    /\ ~HasTransition(sm.nodes[smCalls[2].from], smCalls[2].input_symbol)
    /\ sm.input_history = <<smCalls[2].input_symbol>>
    /\ sm.current_state # sm.root

\* input_history when call i of smCalls reached its accept check: the history
\* the call before left, with the symbol appended when the cursor had an edge
\* for it, or the symbol alone when the match restarted from the root.
ConsumedAt(i) ==
    IF HasTransition(sm.nodes[smCalls[i].from], smCalls[i].input_symbol)
    THEN Append(IF i = 1 THEN <<>> ELSE smCalls[i - 1].history, smCalls[i].input_symbol)
    ELSE <<smCalls[i].input_symbol>>

\* The last k symbols fed up to call i.
LastFed(i, k) == [j \in 1..k |-> smCalls[i - k + j].input_symbol]

\* C35: a label returned by process_input is the label of a registered pattern
\* whose sequence is the history consumed at the accept, and that history is
\* the run of the symbols fed last.
C35_LabelsOnlyForRegisteredRuns ==
    \A i \in 1..Len(smCalls) :
        smCalls[i].ret # None =>
            /\ \E n \in 1..Len(sm.combo_list) :
                  sm.combo_list[n] = <<ConsumedAt(i), smCalls[i].ret>>
            /\ Len(ConsumedAt(i)) <= i
            /\ ConsumedAt(i) = LastFed(i, Len(ConsumedAt(i)))

\* Three symbols were fed; the first was dropped by a restart, and the last two
\* are a registered sequence, whose label the third call returned.
C35_Witness ==
    /\ Len(smCalls) = 3
    /\ smCalls[1].ret = None
    /\ smCalls[2].from # sm.root
    /\ ~HasTransition(sm.nodes[smCalls[2].from], smCalls[2].input_symbol)
    /\ smCalls[3].ret # None
    /\ ConsumedAt(3) = <<smCalls[2].input_symbol, smCalls[3].input_symbol>>

\* C36: a validator's PDA is never in q_accept, is_accepting() is false in
\* every configuration, and process accepts no input.
C36_AcceptStateUnreachable ==
    /\ pda.current_state # "q_accept"
    /\ ~IsAccepting(pda)
    /\ pdaCall.op = "process" => ~pdaCall.accepted

\* process was handed the token types of 3 + 4 on the infix PDA and rejected
\* them in q_expect_operator, the state in which validate() declares 3 + 4 valid.
C36_Witness ==
    /\ pdaCall.op = "process"
    /\ pda.transitions = InfixTransitions
    /\ pdaCall.input_string = <<"OPERAND", "OPERATOR", "OPERAND">>
    /\ ~pdaCall.accepted
    /\ pdaCall.message = [text |-> "Ended in non-accepting state", state |-> "q_expect_operator"]
    /\ InfixValidate(NewInfixValidator, <<"3", "+", "4">>).result.is_valid

(***************************************************************************)
(* Claims about the operand counter of the postfix and prefix validators.  *)
(***************************************************************************)
\* The validate call read every token of a non-empty token list: its trace has
\* a line for each token.
LoopCompleted(call) ==
    /\ call.op = "validate"
    /\ TokenizePostfix(call.expression) # <<>>
    /\ Len(call.result.execution_trace) = Len(TokenizePostfix(call.expression))

\* The operand counter when the loop ended, as its last trace line shows it.
FinalCounter(call) == call.result.execution_trace[Len(call.result.execution_trace)].operands

\* C37: when the token loop of PostfixValidator.validate or
\* PrefixValidator.validate ends on a non-empty token list without a rejection,
\* the operand counter is at least 1 and is the size of the PDA's stack; and no
\* validate call returns 'No result - expression is incomplete'.
C37_CounterAtLeastOne ==
    /\ LoopCompleted(polishCall.postfix) =>
          /\ FinalCounter(polishCall.postfix) >= 1
          /\ FinalCounter(polishCall.postfix) = StackSize(polish.postfix_validator.pda.stack)
    /\ LoopCompleted(polishCall.prefix) =>
          /\ FinalCounter(polishCall.prefix) >= 1
          /\ FinalCounter(polishCall.prefix) = StackSize(polish.prefix_validator.pda.stack)
    /\ polishCall.postfix.op = "validate" => polishCall.postfix.result.message # NoResult
    /\ polishCall.prefix.op = "validate" => polishCall.prefix.result.message # NoResult

\* '3 3 + 3' was validated as postfix: the loop read its four tokens, an
\* operator among them, and ended with two operands counted and on the stack.
C37_Witness ==
    /\ LoopCompleted(polishCall.postfix)
    /\ PostfixKinds = <<"OPERAND", "OPERAND", "OPERATOR", "OPERAND">>
    /\ FinalCounter(polishCall.postfix) = 2
    /\ StackSize(polish.postfix_validator.pda.stack) = 2

(***************************************************************************)
(* Claims about the value stack of postfix_to_infix and prefix_to_infix.   *)
(***************************************************************************)
\* The last call was postfix_to_infix or prefix_to_infix.
LastIsToInfix ==
    /\ convCalls # <<>>
    /\ Last(convCalls).op \in {"postfix_to_infix", "prefix_to_infix"}

\* The steps hold, after the entry with the tokens, one entry per line of the
\* validator's trace and then the final result; the value stack of each entry
\* is as deep as the operand counter of the validator's line for that token.
DepthsAgree(steps, execution_trace) ==
    /\ Len(steps) = Len(execution_trace) + 2
    /\ \A i \in 1..Len(execution_trace) :
           /\ steps[i + 1].token = execution_trace[i].token
           /\ Len(steps[i + 1].stack) = execution_trace[i].operands

\* C38: for every expression the postfix (resp. prefix) validator accepts,
\* postfix_to_infix (resp. prefix_to_infix) succeeds, and at every token the
\* depth of the converter's value stack is the validator's operand counter; the
\* converter's own failures, 'Not enough operands for operator' and 'stack
\* should have exactly one element', are never returned.
C38_AcceptedPolishConverts ==
    LastIsToInfix =>
        /\ Last(convCalls).result.error_message \notin {NotEnoughForOperator, NotOneElement}
        /\ LastVerdict.is_valid =>
               /\ Last(convCalls).result.success
               /\ DepthsAgree(Last(convCalls).result.steps, LastVerdict.execution_trace)

\* prefix_to_infix succeeded on '- 1 2': its value stack was one deep after 2,
\* two deep after 1 and one deep after the operator.
C38_Witness ==
    /\ LastIsToInfix
    /\ Last(convCalls).op = "prefix_to_infix"
    /\ Last(convCalls).expression = <<"-", " ", "1", " ", "2">>
    /\ LastVerdict.is_valid
    /\ Last(convCalls).result.success
    /\ Len(Last(convCalls).result.steps[2].stack) = 1
    /\ Len(Last(convCalls).result.steps[3].stack) = 2
    /\ Len(Last(convCalls).result.steps[4].stack) = 1
    /\ LastVerdict.execution_trace[3].operands = 1

(***************************************************************************)
(* Claims about the second leg of postfix_to_prefix and prefix_to_postfix. *)
(***************************************************************************)
\* The second leg of the last call: the conversion of the first leg's result.
SecondLeg ==
    IF Last(convCalls).op = "postfix_to_prefix"
    THEN InfixToPrefix(FirstLeg.result_expression)
    ELSE InfixToPostfix(FirstLeg.result_expression)

\* The result of the last call, read back as infix by the converter of its
\* target notation.
ResultAsInfix ==
    IF Last(convCalls).op = "postfix_to_prefix"
    THEN PrefixToInfix(Last(convCalls).result.result_expression)
    ELSE PostfixToInfix(Last(convCalls).result.result_expression)

\* The last call succeeded with the second leg's result, and the result reads
\* back as the fully parenthesised expression the source was read as.
SecondLegCompletes ==
    /\ SecondLeg.success
    /\ Last(convCalls).result.success
    /\ Last(convCalls).result.result_expression = SecondLeg.result_expression
    /\ ResultAsInfix.success
    /\ ResultAsInfix.result_expression = FirstLeg.result_expression

\* postfix_to_prefix was called on a valid postfix expression, and then
\* perhaps prefix_to_postfix on its result.
PostfixSentThroughPrefix ==
    /\ convCalls # <<>>
    /\ convCalls[1].op = "postfix_to_prefix"
    /\ ValidatePostfix(convExpr).is_valid

\* C39 as stated: whenever the first leg of postfix_to_prefix or
\* prefix_to_postfix succeeds, the second leg succeeds too, so the call
\* succeeds, with a result that denotes the same expression tree as the source;
\* and prefix_to_postfix(postfix_to_prefix(s)) is s for every valid postfix s.
C39_AsStated ==
    /\ (LastIsTwoLegged /\ FirstLeg.success) => SecondLegCompletes
    /\ PostfixSentThroughPrefix => convCalls[1].result.success
    /\ (PostfixSentThroughPrefix /\ Chained("postfix_to_prefix", "prefix_to_postfix")) =>
           /\ convCalls[2].result.success
           /\ convCalls[2].result.result_expression = convExpr

\* Every character of the expression is a digit of DIGITS, an operator or a space.
WrittenInDIGITS(expression) ==
    \A i \in 1..Len(expression) : expression[i] \in DIGITS \cup OPERATORS \cup Whitespace

\* What holds of C39 in the code: for an expression whose operands are written
\* in the digits of DIGITS, a successful first leg is followed by a successful
\* second leg, with a result that denotes the same tree; and the round trip of
\* such a valid postfix s succeeds with the tokens of s joined by one space.
C39_HoldsOverDIGITS ==
    /\ (LastIsTwoLegged /\ FirstLeg.success /\ WrittenInDIGITS(Last(convCalls).expression))
           => SecondLegCompletes
    /\ (/\ PostfixSentThroughPrefix
        /\ WrittenInDIGITS(convExpr)
        /\ Chained("postfix_to_prefix", "prefix_to_postfix")) =>
           /\ convCalls[2].result.success
           /\ convCalls[2].result.result_expression = JoinWords(TokenizePostfix(convExpr))

\* postfix_to_prefix was called on a valid postfix expression with the operand
\* U+0663: postfix_to_infix succeeded on it and infix_to_prefix rejected the result.
C39_SecondLegFailed ==
    /\ LastIsTwoLegged
    /\ Last(convCalls).op = "postfix_to_prefix"
    /\ Last(convCalls).expression = <<"U+0663", " ", "2", " ", "-">>
    /\ LastVerdict.is_valid
    /\ FirstLeg.success
    /\ ~SecondLeg.success
    /\ ~Last(convCalls).result.success
    /\ Last(convCalls).result.error_message = InvalidToken(<<"INVALID:", "U+0663">>)

\* '1  2 -', with two spaces after 1, went to prefix and back to '1 2 -'.
C39_RoundTripRespaced ==
    /\ Chained("postfix_to_prefix", "prefix_to_postfix")
    /\ convExpr = <<"1", " ", " ", "2", " ", "-">>
    /\ convCalls[2].result.success
    /\ convCalls[2].result.result_expression = <<"1", " ", "2", " ", "-">>

====
